---- MODULE Spec2Model ----
(***************************************************************************)
(* Model of the corp-jira MCP server: the request helper (jiraRequest,     *)
(* constructAuthHeader, createJiraError), the per-tool operations and the  *)
(* CallTool handler that dispatches to them.                               *)
(*                                                                         *)
(* Text that the code inspects character by character (credentials) is a   *)
(* sequence of one-character strings; other text is a TLA+ string, and a   *)
(* message assembled by template literals is the sequence of its pieces.   *)
(***************************************************************************)
EXTENDS Integers, Sequences, FiniteSets, TLC

VARIABLES
    email,      \* config.auth.email
    token,      \* config.auth.token
    call,       \* the CallTool request being handled: [name, args]
    pc,         \* position of the handler: "idle", an await site, or "done"
    local,      \* local variables of the running operation
    sent,       \* HTTP requests handed to fetch during this call, in order
    opResult,   \* what the operation returned or threw
    reply,      \* what the CallTool handler returned or threw to the client
    rq,         \* the jiraRequest call followed line by line (SpecRequest)
    log,        \* lines that call appended to config.logFile
    issueLabels, \* the labels Jira holds for the issue (SpecInterleaved)
    calls       \* the updateJiraIssue calls in progress together (SpecInterleaved)

vars == <<email, token, call, pc, local, sent, opResult, reply, rq, log,
          issueLabels, calls>>

-----------------------------------------------------------------------------
(* Bounds *)

\* Largest number of entries of linkedIssues in an update_jira_issue call.
MaxLinks == 2

-----------------------------------------------------------------------------
(* Characters, bytes and base64 (Buffer.from / Buffer#toString) *)

Range(s) == {s[i] : i \in DOMAIN s}

\* Printable ASCII, code 32 first (codes 34, 92 and 96 stand as named
\* placeholders: no credential of the model holds them).
Printable ==
  << " ", "!", "<dquote>", "#", "$", "%", "&", "'", "(", ")", "*", "+", ",", "-", ".", "/",
     "0", "1", "2", "3", "4", "5", "6", "7", "8", "9", ":", ";", "<", "=", ">", "?",
     "@", "A", "B", "C", "D", "E", "F", "G", "H", "I", "J", "K", "L", "M", "N", "O",
     "P", "Q", "R", "S", "T", "U", "V", "W", "X", "Y", "Z", "[", "<backslash>", "]", "^", "_",
     "<backtick>", "a", "b", "c", "d", "e", "f", "g", "h", "i", "j", "k", "l", "m", "n", "o",
     "p", "q", "r", "s", "t", "u", "v", "w", "x", "y", "z", "{", "|", "}", "~" >>

CharCode(c) == 31 + (CHOOSE i \in DOMAIN Printable : Printable[i] = c)

\* Buffer.from(string): the UTF-8 bytes of an ASCII string.
Utf8Bytes(s) == [i \in DOMAIN s |-> CharCode(s[i])]

Base64Alphabet ==
  << "A", "B", "C", "D", "E", "F", "G", "H", "I", "J", "K", "L", "M", "N", "O", "P",
     "Q", "R", "S", "T", "U", "V", "W", "X", "Y", "Z", "a", "b", "c", "d", "e", "f",
     "g", "h", "i", "j", "k", "l", "m", "n", "o", "p", "q", "r", "s", "t", "u", "v",
     "w", "x", "y", "z", "0", "1", "2", "3", "4", "5", "6", "7", "8", "9", "+", "/" >>

Base64Char(n) == Base64Alphabet[n + 1]

\* The 6-bit value of a base64 character, -1 for any other character.  The
\* decoder also accepts the URL-safe characters '-' and '_'.
Unbase64(c) ==
    IF c \in Range(Base64Alphabet)
    THEN (CHOOSE i \in DOMAIN Base64Alphabet : Base64Alphabet[i] = c) - 1
    ELSE IF c = "-" THEN 62
    ELSE IF c = "_" THEN 63
    ELSE -1

\* Buffer#toString('base64'): three bytes to four characters, '=' padding.
RECURSIVE Base64Encode(_)
Base64Encode(bytes) ==
    IF Len(bytes) = 0 THEN <<>>
    ELSE IF Len(bytes) = 1 THEN
        << Base64Char(bytes[1] \div 4),
           Base64Char((bytes[1] % 4) * 16), "=", "=" >>
    ELSE IF Len(bytes) = 2 THEN
        << Base64Char(bytes[1] \div 4),
           Base64Char((bytes[1] % 4) * 16 + bytes[2] \div 16),
           Base64Char((bytes[2] % 16) * 4), "=" >>
    ELSE
        << Base64Char(bytes[1] \div 4),
           Base64Char((bytes[1] % 4) * 16 + bytes[2] \div 16),
           Base64Char((bytes[2] % 16) * 4 + bytes[3] \div 64),
           Base64Char(bytes[3] % 64) >>
        \o Base64Encode(SubSeq(bytes, 4, Len(bytes)))

\* The 6-bit values the lenient decoder reads: decoding stops at the first
\* '=', and characters outside the alphabet are skipped.
RECURSIVE Sextets(_)
Sextets(chars) ==
    IF Len(chars) = 0 \/ Head(chars) = "=" THEN <<>>
    ELSE IF Unbase64(Head(chars)) < 0 THEN Sextets(Tail(chars))
    ELSE <<Unbase64(Head(chars))>> \o Sextets(Tail(chars))

RECURSIVE SextetsToBytes(_)
SextetsToBytes(q) ==
    IF Len(q) < 2 THEN <<>>
    ELSE IF Len(q) = 2 THEN << q[1] * 4 + q[2] \div 16 >>
    ELSE IF Len(q) = 3 THEN
        << q[1] * 4 + q[2] \div 16, (q[2] % 16) * 16 + q[3] \div 4 >>
    ELSE
        << q[1] * 4 + q[2] \div 16,
           (q[2] % 16) * 16 + q[3] \div 4,
           (q[3] % 4) * 64 + q[4] >>
        \o SextetsToBytes(SubSeq(q, 5, Len(q)))

\* Buffer.from(string, 'base64'): never throws.
Base64Decode(chars) == SextetsToBytes(Sextets(chars))

\* decodedToken.includes(':') on the UTF-8 reading of the decoded bytes: the
\* byte 58 reads as ':' wherever it stands.
IncludesColon(bytes) == \E i \in DOMAIN bytes : bytes[i] = 58

-----------------------------------------------------------------------------
(* Configuration *)

\* Values of JIRA_EMAIL.
Emails == { <<"u", "@", "x">> }

\* Values of JIRA_PERSONAL_ACCESS_TOKEN: a raw token, a token that is the
\* base64 of "u:t", a raw token whose base64 reading happens to hold ':',
\* and a raw token with a character outside the base64 alphabet.
Tokens == { <<"a", "b", "c", "d">>,
            <<"d", "T", "p", "0">>,
            <<"O", "j", "o">>,
            <<"t", "!", "k">> }

BasicPrefix == <<"B", "a", "s", "i", "c", " ">>

Redacted == <<"[REDACTED]">>

\* The message constructAuthHeader logs and the header it returns.
AuthHeaderUnencodedMutant(e, t) ==
    [ note  |-> "Constructing new auth header with email:token format",
      value |-> BasicPrefix \o e \o <<":">> \o t ]

constructAuthHeader(e, t) ==
    IF IncludesColon(Base64Decode(t))
    THEN [ note  |-> "Using pre-encoded token",
           value |-> BasicPrefix \o t ]
    ELSE [ note  |-> "Constructing new auth header with email:token format",
           value |-> BasicPrefix \o Base64Encode(Utf8Bytes(e \o <<":">> \o t)) ]

-----------------------------------------------------------------------------
(* HTTP responses and the error taxonomy (errors.ts, parseResponseBody) *)

\* Joins the pieces of an array of texts with a separator (Array#join).
RECURSIVE Join(_, _)
Join(texts, sep) ==
    IF Len(texts) = 0 THEN <<>>
    ELSE IF Len(texts) = 1 THEN <<texts[1]>>
    ELSE <<texts[1], sep>> \o Join(Tail(texts), sep)

\* Object.entries(errors).map(([key, value]) => `${key}: ${value}`)
RECURSIVE EntryTexts(_)
EntryTexts(entries) ==
    IF Len(entries) = 0 THEN <<>>
    ELSE <<entries[1][1] \o ": " \o entries[1][2]>> \o EntryTexts(Tail(entries))

\* String#includes over the texts of the model: the pairs <<text, needle>>
\* for which text.includes(needle) holds.
IncludesTable ==
    { <<"Received 404 from upstream", "404">>,
      <<"summary: Field 'summary' is required", "required">>,
      <<"summary: Field 'summary' is required", "field">> }

TextIncludes(text, needle) == <<text, needle>> \in IncludesTable

MessageIncludes(message, needle) ==
    \E i \in DOMAIN message : TextIncludes(message[i], needle)

ErrorStatuses == {400, 401, 403, 404, 409, 422, 429, 500}

\* Bodies a Jira error response carries: the parsed JSON object, or the form
\* of a body that is not one: no text, JSON text of a value that is not an
\* object (null), or text that is not JSON.
ErrorPayloads ==
    { [form |-> "object", errorMessages |-> <<"Issue Does Not Exist">>,
       errors |-> <<>>, message |-> ""],
      [form |-> "object", errorMessages |-> <<"Received 404 from upstream">>,
       errors |-> <<>>, message |-> ""],
      [form |-> "object", errorMessages |-> <<>>,
       errors |-> << <<"summary", "Field 'summary' is required">> >>,
       message |-> ""],
      [form |-> "empty", errorMessages |-> <<>>, errors |-> <<>>, message |-> ""],
      [form |-> "null", errorMessages |-> <<>>, errors |-> <<>>, message |-> ""],
      [form |-> "text", errorMessages |-> <<>>, errors |-> <<>>, message |-> ""] }

NoPayload == [form |-> "empty", errorMessages |-> <<>>, errors |-> <<>>, message |-> ""]

ContentTypeOf(payload) ==
    IF payload.form = "text" THEN "text/html" ELSE "application/json"

\* JSON values as trees: a string, or the entries of an object or of an
\* array (the key of an array entry is its index).
Str(text) == [kind |-> "string", text |-> text, entries |-> <<>>]

Entry(key, value) == [key |-> key, value |-> value]

Obj(entries) == [kind |-> "object", text |-> "", entries |-> entries]

Arr(items) ==
    [kind |-> "array", text |-> "",
     entries |-> [i \in DOMAIN items |-> Entry(ToString(i - 1), items[i])]]

Bool(b) == [kind |-> "boolean", text |-> IF b THEN "true" ELSE "false",
            entries |-> <<>>]

NoData == Obj(<<>>)

\* The other properties of a JSON body Jira answers with.
ResponseData ==
    { NoData,
      Obj(<<Entry("name", Str("u")), Entry("token", Str("s3cret"))>>),
      Obj(<<Entry("session", Obj(<<Entry("PASSWORD", Str("s3cret")),
                                   Entry("id", Str("7"))>>))>>),
      Obj(<<Entry("items",
                  Arr(<<Obj(<<Entry("Secret",
                                    Obj(<<Entry("value", Str("s3cret"))>>))>>)>>))>>) }

\* What fetch resolves to or rejects with.
Responses ==
    { [status |-> 200, ctype |-> "application/json", payload |-> NoPayload,
       data |-> d] : d \in ResponseData }
    \cup
    { [status |-> 204, ctype |-> "none", payload |-> NoPayload, data |-> NoData],
      [status |-> 200, ctype |-> "application/xml", payload |-> NoPayload,
       data |-> NoData],
      [status |-> 0, ctype |-> "network", payload |-> NoPayload, data |-> NoData] }
    \cup { [status |-> st, ctype |-> ContentTypeOf(pl), payload |-> pl,
            data |-> NoData] :
             st \in ErrorStatuses, pl \in ErrorPayloads }
    \cup { [status |-> st, ctype |-> "application/xml", payload |-> NoPayload,
            data |-> NoData] :
             st \in {401, 404} }

ResponseOk(resp) == resp.status \in 200..299

NoDetails == [present |-> FALSE, errors |-> <<>>, errorMessages |-> <<>>]

\* The errors and errorMessages properties of error.response, when the
\* response kept by the error is the Jira body.
DetailsOf(value) ==
    [present |-> value.form = "object", errors |-> value.errors,
     errorMessages |-> value.errorMessages]

NoError == [name |-> "none", message |-> <<>>, status |-> 0, details |-> NoDetails]

NewError(name, message, status, details) ==
    [name |-> name, message |-> message, status |-> status, details |-> details]

isJiraError(error) == error.name \notin {"none", "Error", "ZodError"}

\* parseResponseBody: the parsed value, or threw for an XML response.  An
\* empty or unparsable JSON text reads as the object {success: true}.
\* isObject is createJiraError's test: response && typeof response === 'object'.
parseResponseBody(resp) ==
    IF resp.ctype = "application/json"
    THEN [threw |-> FALSE, isObject |-> resp.payload.form # "null",
          value |-> resp.payload]
    ELSE IF resp.ctype = "application/xml"
    THEN [threw |-> TRUE, isObject |-> FALSE, value |-> resp.payload]
    ELSE [threw |-> FALSE, isObject |-> FALSE, value |-> resp.payload]

\* The taxonomy of createJiraError's switch; the subclasses with a fixed
\* status replace the response by {message}.
IgnoreStatusMutant(status, message, value) ==
    NewError("JiraError", message, status, DetailsOf(value))

ErrorForStatus(status, message, value) ==
    CASE status = 401 -> NewError("JiraAuthenticationError", message, 401, NoDetails)
      [] status = 403 -> NewError("JiraPermissionError", message, 403, NoDetails)
      [] status = 404 -> NewError("JiraResourceNotFoundError",
                                  <<"Resource not found: ">> \o message, 404, NoDetails)
      [] status = 409 -> NewError("JiraConflictError", message, 409, NoDetails)
      [] status \in {400, 422} ->
             NewError("JiraValidationError", message, status, DetailsOf(value))
      [] status = 429 -> NewError("JiraRateLimitError", message, 429, NoDetails)
      [] OTHER -> NewError("JiraError", message, status, DetailsOf(value))

createJiraError(status, parsed) ==
    IF parsed.isObject
    THEN LET value == parsed.value
             message ==
                 IF Len(value.errorMessages) > 0
                 THEN Join(value.errorMessages, ", ")
                 ELSE IF Len(value.errors) > 0
                 THEN Join(EntryTexts(value.errors), ", ")
                 ELSE IF value.message # "" THEN <<value.message>>
                 ELSE <<"Unknown error">>
         IN  ErrorForStatus(status, message, value)
    ELSE NewError("JiraError", <<"Unknown Jira API error">>, status, NoDetails)

XmlError ==
    NewError("Error",
             <<"Received XML response instead of JSON. This usually indicates an authentication or API endpoint issue.">>,
             0, NoDetails)

FetchError == NewError("Error", <<"fetch failed">>, 0, NoDetails)

\* What jiraRequest does with the outcome of fetch: it returns the body
\* ({success: true} in place of no content) or throws error.
JiraRequestOutcome(resp) ==
    IF resp.ctype = "network"
    THEN [ok |-> FALSE, noContent |-> FALSE, error |-> FetchError]
    ELSE IF resp.status = 204
    THEN [ok |-> TRUE, noContent |-> TRUE, error |-> NoError]
    ELSE LET parsed == parseResponseBody(resp) IN
         IF parsed.threw
         THEN [ok |-> FALSE, noContent |-> FALSE, error |-> XmlError]
         ELSE IF ~ResponseOk(resp)
         THEN [ok |-> FALSE, noContent |-> FALSE,
               error |-> createJiraError(resp.status, parsed)]
         ELSE [ok |-> TRUE, noContent |-> FALSE, error |-> NoError]

\* The ways an awaited jiraRequest can end.
RequestOutcomes == { JiraRequestOutcome(resp) : resp \in Responses }

-----------------------------------------------------------------------------
(* Values of the tool calls *)

Empty == [k \in {} |-> k]

\* An optional property: absent, or present with one of the values.
Opt(key, values) == {Empty} \cup {key :> v : v \in values}

\* An optional value read from an object: <<>> for undefined, <<v>> otherwise.
Get(object, key) == IF key \in DOMAIN object THEN <<object[key]>> ELSE <<>>

IssueKey == "PROJ-1"

ProjectKey == "PROJ"

\* The texts that match /^[A-Z]+-\d+$/ among the values of jql.
IssueKeyLike == {"PROJ-1"}

\* String#toLowerCase over the status names and the keys of the model.
ToLowerCase(text) ==
    CASE text = "Done" -> "done"
      [] text = "PASSWORD" -> "password"
      [] text = "Secret" -> "secret"
      [] text = "DONE" -> "done"
      [] text = "In Progress" -> "in progress"
      [] text = "Closed" -> "closed"
      [] OTHER -> text

Link(i) == [fromIssueKey |-> IssueKey, toIssueKey |-> "PROJ-" \o ToString(i + 1),
            type |-> "Blocks"]

LinkLists == { [i \in 1..n |-> Link(i)] : n \in 1..MaxLinks }

UpdateFields ==
    { [summary |-> "New title"],
      [labels |-> <<"new">>],
      [status |-> [name |-> "DONE"]],
      [status |-> [name |-> "DONE", comment |-> "closing",
                   resolution |-> [name |-> "Fixed"]]],
      [summary |-> "New title", labels |-> <<"new">>,
       status |-> [name |-> "DONE", comment |-> "closing"]] }

UpdateOperations == [labels |-> <<[add |-> "extra"]>>]

UpdateArgs ==
    { [issueIdOrKey |-> IssueKey] @@ f @@ l :
        f \in Opt("fields", UpdateFields),
        l \in Opt("linkedIssues", LinkLists) }
    \cup
    { [issueIdOrKey |-> IssueKey, update |-> UpdateOperations] @@ f :
        f \in Opt("fields", {[status |-> [name |-> "DONE"]]}) }

TransitionExtras ==
    { c @@ r @@ f :
        c \in Opt("comment", {"", "note"}),
        r \in Opt("resolution", {[name |-> "Done"]}),
        f \in Opt("fields", {[resolution |-> [name |-> "Duplicate"],
                              customfield_10000 |-> [name |-> "x"]]}) }

ToolCalls ==
    { [name |-> "test_jira_auth", args |-> Empty] }
    \cup { [name |-> "search_jira_issues", args |-> [jql |-> q]] :
             q \in {"PROJ-1", "project = PROJ"} }
    \cup { [name |-> "create_jira_issue",
            args |-> [fields |-> [summary |-> "Title"]]] }
    \cup { [name |-> "update_jira_issue", args |-> a] : a \in UpdateArgs }
    \cup { [name |-> "get_jira_comments", args |-> [issueIdOrKey |-> IssueKey]] }
    \cup { [name |-> "add_jira_comment",
            args |-> [issueIdOrKey |-> IssueKey, comment |-> [body |-> "note"]]] }
    \cup { [name |-> "transition_jira_status",
            args |-> [issueIdOrKey |-> IssueKey, transitionId |-> "5"] @@ x] :
             x \in TransitionExtras }
    \cup { [name |-> "get_jira_transitions", args |-> [issueIdOrKey |-> IssueKey]] }
    \cup { [name |-> "transition_jira_status_by_name",
            args |-> [issueIdOrKey |-> IssueKey, statusName |-> n] @@ x] :
             n \in {"done", "Closed"}, x \in TransitionExtras }
    \cup { [name |-> "get_all_components_using_project",
            args |-> [projectIdOrKey |-> ProjectKey]] }
    \cup { [name |-> "get_project_config",
            args |-> [projectKey |-> ProjectKey, includeMetadata |-> m]] :
             m \in BOOLEAN }
    \cup { [name |-> "get_jira_issuetype_metadata",
            args |-> [projectIdOrKey |-> ProjectKey, issueTypeId |-> "10001",
                      startAt |-> st, maxResults |-> mx, minimizeOutput |-> mn]] :
             st \in {0, 50}, mx \in {50, 100, 200, 201, 500}, mn \in BOOLEAN }
    \cup { [name |-> "get_jira_issuetype",
            args |-> [projectIdOrKey |-> ProjectKey, startAt |-> p[1],
                      maxResults |-> p[2]]] : p \in {<<0, 50>>, <<10, 20>>} }

\* The transitions Jira offers for an issue (GET issue/{key}/transitions).
TransitionLists ==
    { <<>>,
      << [id |-> "4", name |-> "Start", to |-> [id |-> "3", name |-> "In Progress"]],
         [id |-> "5", name |-> "Finish", to |-> [id |-> "6", name |-> "Done"]] >> }

\* The labels of the issue as Jira returns them (GET issue/{key}?fields=labels).
LabelLists == { <<"old">>, <<"old", "new">> }

-----------------------------------------------------------------------------
(* jiraRequest: the request handed to fetch *)

ApiBaseUrl == "https://jira.corp.adobe.com/rest/api/2"

UserAgent == "modelcontextprotocol/servers/jira"

NoBody == [none |-> TRUE]

\* URLSearchParams encoding of the jql values of the model.
EncodeQueryValue(text) ==
    CASE text = "project = PROJ" -> "project+%3D+PROJ"
      [] OTHER -> text

\* A template literal: the pieces of text joined into one text.
RECURSIVE JoinText(_)
JoinText(pieces) ==
    IF Len(pieces) = 0 THEN "" ELSE Head(pieces) \o JoinText(Tail(pieces))

\* String#startsWith
StartsWith(text, prefix) ==
    Len(text) >= Len(prefix) /\ SubSeq(text, 1, Len(prefix)) = prefix

\* String#split on a one-character separator, from position from on.
RECURSIVE Split(_, _, _)
Split(text, separator, from) ==
    LET hits == {i \in from..Len(text) : SubSeq(text, i, i) = separator}
    IN  IF hits = {} THEN <<SubSeq(text, from, Len(text))>>
        ELSE LET hit == CHOOSE i \in hits : \A j \in hits : i <= j
             IN  <<SubSeq(text, from, hit - 1)>> \o Split(text, separator, hit + 1)

\* The single-dot and double-dot path segments of the URL parser, with their
\* percent-encoded spellings.
SingleDotSegments == {".", "%2e", "%2E"}

DoubleDotSegments == {"..", ".%2e", ".%2E", "%2e.", "%2E.", "%2e%2e", "%2E%2E",
                      "%2e%2E", "%2E%2e"}

\* The path state of the URL parser: a double-dot segment removes the last
\* segment kept so far, a single-dot segment is dropped, and a dot segment in
\* the last place leaves an empty last segment.
RECURSIVE ShortenPath(_, _)
ShortenPath(segments, kept) ==
    IF Len(segments) = 0 THEN kept
    ELSE LET segment == Head(segments)
             last == Len(segments) = 1
             shorter == IF Len(kept) = 0 THEN kept ELSE SubSeq(kept, 1, Len(kept) - 1)
         IN  IF segment \in DoubleDotSegments
             THEN ShortenPath(Tail(segments), IF last THEN Append(shorter, "") ELSE shorter)
             ELSE IF segment \in SingleDotSegments
             THEN ShortenPath(Tail(segments), IF last THEN Append(kept, "") ELSE kept)
             ELSE ShortenPath(Tail(segments), Append(kept, segment))

RECURSIVE JoinSegments(_)
JoinSegments(segments) ==
    IF Len(segments) = 0 THEN "" ELSE "/" \o Head(segments) \o JoinSegments(Tail(segments))

\* new URL(text).toString() for an https URL: the text up to the first "?"
\* is the scheme, two slashes, the host and the path; the path loses its dot
\* segments and the query is kept as written.
UrlToString(text) ==
    LET parts == Split(text, "?", 1)
        segments == Split(parts[1], "/", 1)
        query == IF Len(parts) = 1 THEN "" ELSE SubSeq(text, Len(parts[1]) + 1, Len(text))
    IN  segments[1] \o "//" \o segments[3]
        \o (IF Len(segments) <= 3 THEN "/"
            ELSE JoinSegments(ShortenPath(SubSeq(segments, 4, Len(segments)), <<>>)))
        \o query

\* buildUrl: the base URL, the path without a leading slash, and the query
\* appended to the parsed URL.  The result is one text.
buildUrl(path, query) ==
    LET text == JoinText(path)
        cleanPath == IF StartsWith(text, "/") THEN SubSeq(text, 2, Len(text)) ELSE text
    IN  <<UrlToString(ApiBaseUrl \o "/" \o cleanPath) \o JoinText(query)>>

\* path.startsWith('http')
StartsWithHttp(path) == StartsWith(JoinText(path), "http")

RequestUrl(path) == IF StartsWithHttp(path) THEN path ELSE buildUrl(path, <<>>)

\* The headers of jiraRequest: the defaults, overridden by the caller's
\* headers, and Authorization set last.  A header value is a sequence of
\* pieces of text.
RequestHeaders(extra) ==
    ("Authorization" :> constructAuthHeader(email, token).value)
    @@ extra
    @@ [ContentType |-> <<"application/json">>, Accept |-> <<"application/json">>,
        XAtlassianToken |-> <<"no-check">>, UserAgent |-> <<UserAgent>>]

\* One call of fetch: outcome is "pending" until the response is delivered.
Request(method, path, body, extra) ==
    [method |-> method, path |-> path, url |-> RequestUrl(path), body |-> body,
     headers |-> RequestHeaders(extra), outcome |-> "pending"]

Delivered(request, out) ==
    [request EXCEPT !.outcome = IF out.ok THEN "ok" ELSE "failed"]

\* await jiraRequest(...): the request is sent and its response delivered.
Exchange(request, out) ==
    sent' = Append(sent, Delivered(request, out))

-----------------------------------------------------------------------------
(* The CallTool handler (index.ts) *)

\* Tools whose handler throws when the result carries success: false, with
\* the message it throws.
FailureText ==
    [update_jira_issue |-> "Failed to update issue",
     get_jira_comments |-> "Failed to get issue comments",
     add_jira_comment |-> "Failed to add comment to issue",
     transition_jira_status |-> "Failed to transition issue status",
     transition_jira_status_by_name |-> "Failed to transition issue status by name",
     get_jira_transitions |-> "Failed to get issue transitions",
     get_all_components_using_project |-> "Failed to get project components",
     get_project_config |-> "Failed to get project components",
     get_jira_issuetype_metadata |-> "Failed to get issue type metadata",
     get_jira_issuetype |-> "Failed to get issue types"]

\* One bullet line per entry, joined by newlines (the bullet character is
\* written "* " here).
BulletEntries(entries) == Join([i \in DOMAIN entries |-> "* " \o entries[i]], "\n")

\* The message the catch block builds for a JiraError.
JiraErrorMessage(error) ==
    <<"Jira API error: ">> \o error.message
    \o (IF error.status # 0
        THEN <<" (Status: ", ToString(error.status), ")">> ELSE <<>>)
    \o (IF error.details.present
        THEN <<"\n\nField Errors:\n">>
             \o BulletEntries(EntryTexts(error.details.errors))
             \o <<"\n\nAdditional Details:\n">>
             \o BulletEntries(error.details.errorMessages)
        ELSE <<>>)

\* The message the catch block builds for a ZodError: one bullet line per
\* issue, with the path of the issue joined by dots.
ZodErrorGenericMutant(issues) == <<"Input validation failed">>

ZodErrorMessage(issues) ==
    <<"Input validation failed:\n">>
    \o BulletEntries(EntryTexts(issues))
    \o <<"\n\nPlease check that all required fields are provided with correct data types.">>

Returned(value) == [type |-> "return", value |-> value, error |-> NoError]

Thrown(error) == [type |-> "throw", value |-> Empty, error |-> error]

\* What the handler hands to the MCP client for the outcome of the operation.
ReplyAlwaysContentMutant(name, outcome) ==
    IF outcome.type = "return"
    THEN [type |-> "content", result |-> outcome.value, message |-> <<>>]
    ELSE [type |-> "error", result |-> Empty, message |-> outcome.error.message]

HandlerReply(name, outcome) ==
    IF outcome.type = "return"
    THEN IF /\ name \in DOMAIN FailureText
            /\ "success" \in DOMAIN outcome.value
            /\ ~outcome.value.success
         THEN [type |-> "error", result |-> Empty, message |-> <<FailureText[name]>>]
         ELSE [type |-> "content", result |-> outcome.value, message |-> <<>>]
    ELSE IF outcome.error.name = "ZodError"
         THEN [type |-> "error", result |-> Empty,
               message |-> ZodErrorMessage(outcome.error.details.errors)]
         ELSE IF isJiraError(outcome.error)
         THEN [type |-> "error", result |-> Empty,
               message |-> JiraErrorMessage(outcome.error)]
         ELSE [type |-> "error", result |-> Empty, message |-> outcome.error.message]

\* The operation ends: cause is the error that made it fail, NoError when
\* no error reached its end.
Complete(outcome, cause) ==
    /\ opResult' = outcome @@ [cause |-> cause]
    /\ reply' = HandlerReply(call.name, outcome)
    /\ pc' = "done"

formatResponse(success, message, data) ==
    [success |-> success, message |-> message, data |-> data]

\* handleOperationError: the result of the catch block of an operation.
HandleErrorAsSuccessMutant(error, operation) ==
    formatResponse(TRUE, <<"Error ", operation, ": ">> \o error.message, "undefined")

handleOperationError(error, operation) ==
    formatResponse(FALSE, <<"Error ", operation, ": ">> \o error.message, "undefined")

\* The first await of each operation.
FirstSite(c) ==
    CASE c.name = "test_jira_auth" -> "testAuth"
      [] c.name = "search_jira_issues" ->
             IF c.args.jql \in IssueKeyLike THEN "searchDirect" ELSE "searchJql"
      [] c.name = "create_jira_issue" -> "createJiraIssue"
      [] c.name = "update_jira_issue" -> "updateGetLabels"
      [] c.name = "get_jira_comments" -> "getJiraComments"
      [] c.name = "add_jira_comment" -> "addJiraComment"
      [] c.name = "transition_jira_status" -> "transition"
      [] c.name = "get_jira_transitions" -> "getJiraTransitions"
      [] c.name = "transition_jira_status_by_name" -> "transitionByName"
      [] c.name = "get_all_components_using_project" -> "getProjectComponents"
      [] c.name = "get_project_config" -> "getProject"
      [] c.name = "get_jira_issuetype_metadata" -> "getJiraIssueTypeMetadata"
      [] c.name = "get_jira_issuetype" -> "getIssueTypes"

NoLocal == [existingLabels |-> <<>>, transitionId |-> "",
            rawComponents |-> [isArray |-> FALSE, items |-> <<>>],
            response |-> NoData]

\* True while a request of the call has no response yet.
Pending == \E i \in DOMAIN sent : sent[i].outcome = "pending"

\* The names of the tools the ListTools handler answers with.
ListedTools ==
    {"test_jira_auth", "search_jira_issues", "create_jira_issue",
     "update_jira_issue", "get_jira_comments", "add_jira_comment",
     "transition_jira_status", "get_jira_transitions",
     "transition_jira_status_by_name", "get_all_components_using_project",
     "get_project_config", "get_jira_issuetype_metadata", "get_jira_issuetype"}

\* The names the switch of the CallTool handler has a case for.
MissingCaseMutant == ListedTools \ {"get_jira_issuetype"}

DispatchedTools ==
    {"test_jira_auth", "search_jira_issues", "create_jira_issue",
     "update_jira_issue", "get_jira_comments", "add_jira_comment",
     "transition_jira_status", "transition_jira_status_by_name",
     "get_jira_transitions", "get_all_components_using_project",
     "get_project_config", "get_jira_issuetype_metadata", "get_jira_issuetype"}

\* request.params.arguments when the request has none.
Undefined == [undefined |-> TRUE]

\* A property of an input schema: its key, whether it is required, the
\* required keys of the object it holds, and the least and greatest number
\* it admits (<<>> when it has no such check).
Field(key, required, inner, range) ==
    [key |-> key, required |-> required, inner |-> inner, range |-> range]

\* The input schemas the handler parses the arguments with, by the keys and
\* number ranges they check; the values of the calls have the types the
\* schemas name.  testAuth is called without a parse.
Schemas ==
    [test_jira_auth |-> <<>>,
     search_jira_issues |-> <<Field("jql", TRUE, <<>>, <<>>)>>,
     create_jira_issue |-> <<Field("fields", TRUE, <<>>, <<>>)>>,
     update_jira_issue |-> <<Field("issueIdOrKey", TRUE, <<>>, <<>>)>>,
     get_jira_comments |-> <<Field("issueIdOrKey", TRUE, <<>>, <<>>)>>,
     add_jira_comment |-> <<Field("issueIdOrKey", TRUE, <<>>, <<>>),
                            Field("comment", TRUE, <<"body">>, <<>>)>>,
     transition_jira_status |-> <<Field("issueIdOrKey", TRUE, <<>>, <<>>),
                                  Field("transitionId", TRUE, <<>>, <<>>),
                                  Field("resolution", FALSE, <<"name">>, <<>>)>>,
     get_jira_transitions |-> <<Field("issueIdOrKey", TRUE, <<>>, <<>>)>>,
     transition_jira_status_by_name |->
         <<Field("issueIdOrKey", TRUE, <<>>, <<>>),
           Field("statusName", TRUE, <<>>, <<>>),
           Field("resolution", FALSE, <<"name">>, <<>>)>>,
     get_all_components_using_project |->
         <<Field("projectIdOrKey", TRUE, <<>>, <<>>)>>,
     get_project_config |-> <<Field("projectKey", TRUE, <<>>, <<>>)>>,
     get_jira_issuetype_metadata |->
         <<Field("projectIdOrKey", TRUE, <<>>, <<>>),
           Field("issueTypeId", TRUE, <<>>, <<>>)>>,
     get_jira_issuetype |->
         <<Field("projectIdOrKey", TRUE, <<>>, <<>>),
           Field("startAt", FALSE, <<>>, <<0>>),
           Field("maxResults", FALSE, <<>>, <<1, 200>>)>>]

\* The keys a strict schema admits.
StrictSchemas ==
    [create_jira_issue |->
        {"fields", "update", "historyMetadata", "properties", "transition"}]

\* The values a schema gives to the keys the arguments leave out.
SchemaDefaults ==
    [get_project_config |-> [includeMetadata |-> TRUE],
     get_jira_issuetype_metadata |->
         [startAt |-> 0, maxResults |-> 50, minimizeOutput |-> FALSE],
     get_jira_issuetype |-> [startAt |-> 0, maxResults |-> 50]]

\* An issue of a ZodError: its path joined by dots, and its message.
Issue(path, message) == <<path, message>>

RangeIssues(f, value) ==
    (IF Len(f.range) >= 1 /\ value < f.range[1]
     THEN <<Issue(f.key, "Number must be greater than or equal to "
                         \o ToString(f.range[1]))>>
     ELSE <<>>)
    \o (IF Len(f.range) = 2 /\ value > f.range[2]
        THEN <<Issue(f.key, "Number must be less than or equal to "
                            \o ToString(f.range[2]))>>
        ELSE <<>>)

FieldIssues(f, args) ==
    IF f.key \notin DOMAIN args
    THEN IF f.required THEN <<Issue(f.key, "Required")>> ELSE <<>>
    ELSE LET missing == SelectSeq(f.inner, LAMBDA k : k \notin DOMAIN args[f.key])
         IN  [i \in DOMAIN missing |-> Issue(f.key \o "." \o missing[i], "Required")]
             \o (IF Len(f.range) > 0 THEN RangeIssues(f, args[f.key]) ELSE <<>>)

RECURSIVE QuotedKeys(_)
QuotedKeys(keys) ==
    IF keys = {} THEN ""
    ELSE LET k == CHOOSE x \in keys : TRUE
             rest == keys \ {k}
         IN  "'" \o k \o "'" \o (IF rest = {} THEN "" ELSE ", " \o QuotedKeys(rest))

RECURSIVE SchemaIssues(_, _)
SchemaIssues(fields, args) ==
    IF Len(fields) = 0 THEN <<>>
    ELSE FieldIssues(Head(fields), args) \o SchemaIssues(Tail(fields), args)

\* The issues Schema.parse(arguments) throws a ZodError with.
ZodIssues(name, args) ==
    SchemaIssues(Schemas[name], args)
    \o (IF name \in DOMAIN StrictSchemas /\ DOMAIN args \ StrictSchemas[name] # {}
        THEN <<Issue("", "Unrecognized key(s) in object: "
                         \o QuotedKeys(DOMAIN args \ StrictSchemas[name]))>>
        ELSE <<>>)

\* The arguments as Schema.parse returns them.
ParsedArguments(name, args) ==
    IF name \in DOMAIN SchemaDefaults THEN args @@ SchemaDefaults[name] ELSE args

ZodError(issues) ==
    NewError("ZodError", EntryTexts(issues), 0,
             [present |-> TRUE, errors |-> issues, errorMessages |-> <<>>])

\* Requests whose arguments are not those of ToolCalls: for a tool the
\* server does not have, without arguments, with arguments the schema
\* rejects, or leaving out keys the schema has defaults for.
OtherCalls ==
    { [name |-> "delete_jira_issue", args |-> [issueIdOrKey |-> IssueKey]],
      [name |-> "delete_jira_issue", args |-> Undefined],
      [name |-> "test_jira_auth", args |-> Undefined],
      [name |-> "get_jira_comments", args |-> Empty],
      [name |-> "get_jira_comments", args |-> [issueIdOrKey |-> "../../../../secure/admin"]],
      [name |-> "add_jira_comment",
       args |-> [issueIdOrKey |-> IssueKey, comment |-> Empty]],
      [name |-> "transition_jira_status", args |-> Empty],
      [name |-> "get_jira_issuetype",
       args |-> [projectIdOrKey |-> ProjectKey, maxResults |-> 500]],
      [name |-> "create_jira_issue",
       args |-> [fields |-> [summary |-> "Title"], bogus |-> "x"]],
      [name |-> "get_jira_issuetype", args |-> [projectIdOrKey |-> ProjectKey]],
      [name |-> "get_project_config", args |-> [projectKey |-> ProjectKey]] }

\* The handler throws before it calls an operation.
Reject(c, error) ==
    /\ call' = c
    /\ opResult' = Thrown(error) @@ [cause |-> error]
    /\ reply' = HandlerReply(c.name, Thrown(error))
    /\ pc' = "done"

\* A ListTools request: the handler answers with the tools.
ListTools ==
    /\ pc = "idle"
    /\ reply' = [type |-> "tools", result |-> [tools |-> ListedTools],
                 message |-> <<>>]
    /\ UNCHANGED <<issueLabels, calls, email, token, call, pc, local, sent, opResult, rq, log>>

\* A CallTool request arrives; the handler parses the arguments and enters
\* the operation.
CallTool ==
    /\ pc = "idle"
    /\ \E c \in ToolCalls \cup OtherCalls :
         IF "undefined" \in DOMAIN c.args
         THEN Reject(c, NewError("Error", <<"Arguments are required">>, 0, NoDetails))
         ELSE IF c.name \notin DispatchedTools
         THEN Reject(c, NewError("Error", <<"Unknown tool: ", c.name>>, 0, NoDetails))
         ELSE IF Len(ZodIssues(c.name, c.args)) > 0
         THEN Reject(c, ZodError(ZodIssues(c.name, c.args)))
         ELSE LET parsed == [name |-> c.name,
                             args |-> ParsedArguments(c.name, c.args)]
              IN  /\ call' = parsed
                  /\ pc' = FirstSite(parsed)
                  /\ opResult' = [type |-> "none"]
                  /\ reply' = [type |-> "none"]
    /\ local' = NoLocal
    /\ sent' = <<>>
    /\ UNCHANGED <<issueLabels, calls, email, token, log, rq>>

\* The handler has replied and every request of the call has its response:
\* the server waits for the next CallTool request.
awaitNextRequest ==
    /\ pc = "done"
    /\ ~Pending
    /\ pc' = "idle"
    /\ call' = [name |-> "none", args |-> Empty]
    /\ local' = NoLocal
    /\ sent' = <<>>
    /\ opResult' = [type |-> "none"]
    /\ reply' = [type |-> "none"]
    /\ UNCHANGED <<issueLabels, calls, email, token, rq, log>>

-----------------------------------------------------------------------------
(* Operations with one request *)

\* What the operation's catch block returns for the error it caught:
\* {success: false, message: error.message, error}.
FailureResult(error) == [success |-> FALSE, message |-> error.message, error |-> error]

\* testAuth -> verifyAuthentication -> jiraRequest("myself")
testAuth ==
    /\ pc = "testAuth"
    /\ \E out \in RequestOutcomes :
         /\ Exchange(Request("GET", <<"myself">>, NoBody, Empty), out)
         /\ IF out.ok
            THEN Complete(Returned([success |-> TRUE,
                                    message |-> <<"Successfully authenticated with Jira API">>,
                                    user |-> "response"]), NoError)
            ELSE Complete(Returned(FailureResult(out.error)), out.error)
    /\ UNCHANGED <<issueLabels, calls, email, token, call, local, rq, log>>

\* searchJiraIssues, the direct fetch of a jql that looks like an issue key.
searchDirect ==
    /\ pc = "searchDirect"
    /\ \E out \in RequestOutcomes :
         /\ Exchange(Request("GET", <<"issue/", call.args.jql>>, NoBody,
                             [Accept |-> <<"application/json">>]), out)
         /\ IF out.ok
            THEN Complete(Returned([issues |-> <<"response">>, total |-> 1,
                                    maxResults |-> 1]), NoError)
            ELSE \* the catch logs to the console and falls through
                 /\ pc' = "searchJql"
                 /\ UNCHANGED <<opResult, reply>>
    /\ UNCHANGED <<issueLabels, calls, email, token, call, local, rq, log>>

\* The body Jira returns for a search, as jiraRequest hands it on.
SearchResponse(out) ==
    IF out.noContent THEN [success |-> TRUE]
    ELSE [startAt |-> 0, maxResults |-> 50, total |-> 1, issues |-> <<"issue">>]

\* searchJiraIssues, the JQL search: the response is returned as it is and
\* an error leaves the operation.
searchJql ==
    /\ pc = "searchJql"
    /\ \E out \in RequestOutcomes :
         /\ Exchange(Request("GET",
                             buildUrl(<<"search">>,
                                      <<"?jql=", EncodeQueryValue(call.args.jql)>>),
                             NoBody, Empty), out)
         /\ IF out.ok
            THEN Complete(Returned(SearchResponse(out)), NoError)
            ELSE Complete(Thrown(out.error), out.error)
    /\ UNCHANGED <<issueLabels, calls, email, token, call, local, rq, log>>

\* Joins messages, each a sequence of pieces, with a separator.
RECURSIVE JoinMessages(_, _)
JoinMessages(messages, sep) ==
    IF Len(messages) = 0 THEN <<>>
    ELSE IF Len(messages) = 1 THEN messages[1]
    ELSE messages[1] \o <<sep>> \o JoinMessages(Tail(messages), sep)

\* The message createJiraIssue builds in its catch block.
CreateErrorMessage(error) ==
    LET details ==
            IF error.name \in {"JiraValidationError", "JiraError"} /\ error.details.present
            THEN << <<"Field Errors:\n">>
                      \o BulletEntries(EntryTexts(error.details.errors)),
                    <<"Additional Details:\n">>
                      \o BulletEntries(error.details.errorMessages) >>
            ELSE <<>>
        guidance ==
            IF \/ MessageIncludes(error.message, "required")
               \/ MessageIncludes(error.message, "mandatory")
               \/ MessageIncludes(error.message, "field")
            THEN << <<"Common required fields: project, summary, issuetype">> >>
            ELSE <<>>
        additionalInfo == details \o guidance
    IN  error.message
        \o (IF Len(additionalInfo) > 0
            THEN <<"\n\n">> \o JoinMessages(additionalInfo, "\n\n") ELSE <<>>)

createJiraIssue ==
    /\ pc = "createJiraIssue"
    /\ \E out \in RequestOutcomes :
         /\ Exchange(Request("POST", <<"issue">>, call.args, Empty), out)
         /\ IF out.ok
            THEN Complete(Returned([success |-> TRUE,
                                    message |-> <<"Successfully created issue ",
                                                  IF out.noContent THEN "undefined"
                                                  ELSE "PROJ-9">>,
                                    data |-> "response"]), NoError)
            ELSE Complete(Returned([success |-> FALSE,
                                    message |-> CreateErrorMessage(out.error),
                                    error |-> out.error]), out.error)
    /\ UNCHANGED <<issueLabels, calls, email, token, call, local, rq, log>>

getJiraComments ==
    /\ pc = "getJiraComments"
    /\ \E out \in RequestOutcomes :
         /\ Exchange(Request("GET", <<"issue/", call.args.issueIdOrKey, "/comment">>,
                             NoBody, Empty), out)
         /\ IF out.ok
            THEN Complete(Returned([success |-> TRUE, data |-> "response"]), NoError)
            ELSE Complete(Returned(FailureResult(out.error)), out.error)
    /\ UNCHANGED <<issueLabels, calls, email, token, call, local, rq, log>>

\* addJiraComment as the add_jira_comment tool runs it.
addJiraComment ==
    /\ pc = "addJiraComment"
    /\ \E out \in RequestOutcomes :
         /\ Exchange(Request("POST", <<"issue/", call.args.issueIdOrKey, "/comment">>,
                             call.args.comment, Empty), out)
         /\ IF out.ok
            THEN Complete(Returned([success |-> TRUE,
                                    message |-> <<"Comment added successfully">>,
                                    data |-> "response"]), NoError)
            ELSE Complete(Returned(FailureResult(out.error)), out.error)
    /\ UNCHANGED <<issueLabels, calls, email, token, call, local, rq, log>>

getJiraTransitions ==
    /\ pc = "getJiraTransitions"
    /\ \E out \in RequestOutcomes :
         /\ Exchange(Request("GET", <<"issue/", call.args.issueIdOrKey, "/transitions">>,
                             NoBody, Empty), out)
         /\ IF out.ok
            THEN Complete(Returned(formatResponse(TRUE,
                              <<"Successfully retrieved transitions for issue ",
                                call.args.issueIdOrKey>>, "response")), NoError)
            ELSE Complete(Returned(handleOperationError(out.error,
                                                        "retrieving transitions")),
                          out.error)
    /\ UNCHANGED <<issueLabels, calls, email, token, call, local, rq, log>>

\* The error getProjectComponents throws for the error it caught.
ComponentsError(error, projectIdOrKey) ==
    IF MessageIncludes(error.message, "404")
    THEN NewError("Error", <<"Project '", projectIdOrKey,
                             "' not found. Please verify the project key or ID.">>,
                  0, NoDetails)
    ELSE IF MessageIncludes(error.message, "403")
    THEN NewError("Error", <<"Access denied to project '", projectIdOrKey,
                             "'. Please check your permissions.">>, 0, NoDetails)
    ELSE error

\* The components Jira returns (ComponentData): the lead is optional.
MaxComponents == 3

ComponentData ==
    { [id |-> "1", name |-> "Core", archived |-> FALSE,
       lead |-> [name |-> "alice", displayName |-> "Alice"]],
      [id |-> "2", name |-> "Legacy", archived |-> TRUE,
       lead |-> [name |-> "bob", displayName |-> "Bob"]],
      [id |-> "3", name |-> "UI", archived |-> FALSE] }

RECURSIVE ListsOf(_, _)
ListsOf(items, n) ==
    IF n = 0 THEN {<<>>}
    ELSE ListsOf(items, n - 1)
         \cup {Append(l, x) : l \in {m \in ListsOf(items, n - 1) : Len(m) = n - 1},
                               x \in items}

\* The body of GET project/{key}/components: an array of components, or a
\* value that is not an array.
ComponentResponses ==
    {[isArray |-> FALSE, items |-> <<>>]}
    \cup {[isArray |-> TRUE, items |-> l] : l \in ListsOf(ComponentData, MaxComponents)}

\* component.lead?.name || 'unassigned'
Ownership(component) ==
    IF "lead" \in DOMAIN component /\ component.lead.name # ""
    THEN component.lead.name ELSE "unassigned"

\* The forEach over rawComponents: the components with archived === false,
\* transformed, in the order of the response.
RECURSIVE KeepArchivedMutant(_)
RECURSIVE TransformComponents(_)
KeepArchivedMutant(items) ==
    IF Len(items) = 0 THEN <<>>
    ELSE <<[component_id |-> Head(items).id, component_name |-> Head(items).name,
            ownership |-> Ownership(Head(items))]>>
         \o KeepArchivedMutant(Tail(items))

TransformComponents(items) ==
    IF Len(items) = 0 THEN <<>>
    ELSE (IF Head(items).archived = FALSE
          THEN <<[component_id |-> Head(items).id, component_name |-> Head(items).name,
                  ownership |-> Ownership(Head(items))]>>
          ELSE <<>>)
         \o TransformComponents(Tail(items))

getProjectComponents ==
    /\ pc = "getProjectComponents"
    /\ \E out \in RequestOutcomes :
         /\ Exchange(Request("GET", <<"project/", call.args.projectIdOrKey, "/components">>,
                             NoBody, [Accept |-> <<"application/json">>]), out)
         /\ IF out.ok
            THEN \E rawComponents \in ComponentResponses :
                   LET components == IF rawComponents.isArray
                                     THEN TransformComponents(rawComponents.items)
                                     ELSE <<>>
                   IN  /\ local' = [local EXCEPT !.rawComponents = rawComponents]
                       /\ Complete(Returned([success |-> TRUE,
                                             projectIdOrKey |-> call.args.projectIdOrKey,
                                             components |-> components,
                                             count |-> Len(components)]), NoError)
            ELSE /\ local' = local
                 /\ Complete(Thrown(ComponentsError(out.error, call.args.projectIdOrKey)),
                             out.error)
    /\ UNCHANGED <<issueLabels, calls, email, token, call, rq, log>>

\* url.searchParams.append for each entry of the parameters, in order.
SearchParams(entries) ==
    [i \in DOMAIN entries |->
        (IF i = 1 THEN "?" ELSE "&") \o entries[i][1] \o "=" \o entries[i][2]]

\* Math.min(maxResults, 200)
UnlimitedPageSizeMutant(maxResults) == maxResults

LimitedPageSize(maxResults) == IF maxResults < 200 THEN maxResults ELSE 200

\* queryParams of getJiraIssueTypeMetadata: startAt unless it is 0,
\* maxResults unless it is 50.
MetadataQueryParams(startAt, maxResults) ==
    (IF startAt # 0 THEN << <<"startAt", ToString(startAt)>> >> ELSE <<>>)
    \o (IF maxResults # 50
        THEN << <<"maxResults", ToString(LimitedPageSize(maxResults))>> >>
        ELSE <<>>)

\* A field of the create metadata, as Jira describes it.
MetaField(fieldId, required, hasDefaultValue) ==
    Obj(<<Entry("self", Str("field/" \o fieldId)),
          Entry("fieldId", Str(fieldId)),
          Entry("required", Bool(required)),
          Entry("hasDefaultValue", Bool(hasDefaultValue)),
          Entry("schema", Obj(<<Entry("type", Str("string")),
                                Entry("self", Str("schema/" \o fieldId))>>))>>)

MetaFields ==
    { MetaField("summary", TRUE, FALSE), MetaField("project", TRUE, FALSE),
      MetaField("description", FALSE, FALSE), MetaField("priority", TRUE, TRUE),
      MetaField("labels", FALSE, TRUE) }

MaxFields == 2

\* The bodies of GET issue/createmeta/{project}/issuetypes/{id}: a page of
\* fields under values, and bodies of other shapes.
MetadataResponses ==
    { Obj(<<Entry("self", Str("createmeta")), Entry("total", Str("2")),
            Entry("values", Arr(l))>>) : l \in ListsOf(MetaFields, MaxFields) }
    \cup { Obj(<<Entry("self", Str("createmeta")), Entry("name", Str("Bug"))>>),
           Obj(<<Entry("values", Str("none")), Entry("self", Str("createmeta"))>>),
           Arr(<<MetaField("summary", FALSE, FALSE)>>),
           Str("ok") }

\* The value of a property of an object: <<>> when the object has none.
Property(value, key) ==
    LET hits == SelectSeq(value.entries, LAMBDA e : e.key = key)
    IN  IF value.kind = "object" /\ Len(hits) > 0 THEN <<hits[1].value>> ELSE <<>>

ItemsOf(array) == [i \in DOMAIN array.entries |-> array.entries[i].value]

\* removeSelfKeys: the value without its "self" keys, at every depth.
RECURSIVE removeSelfKeys(_)
removeSelfKeys(obj) ==
    IF obj.kind = "array"
    THEN Arr([i \in DOMAIN obj.entries |-> removeSelfKeys(obj.entries[i].value)])
    ELSE IF obj.kind = "object"
    THEN LET kept == SelectSeq(obj.entries, LAMBDA e : e.key # "self")
         IN  Obj([i \in DOMAIN kept |-> Entry(kept[i].key, removeSelfKeys(kept[i].value))])
    ELSE obj

\* filterFieldsForMinimize: of an array, the items whose required is not
\* false and whose hasDefaultValue is not true; any other value as it is.
FilterKeepsAllMutant(values) == values

filterFieldsForMinimize(values) ==
    IF values.kind # "array" THEN values
    ELSE Arr(SelectSeq(ItemsOf(values),
                       LAMBDA valueObj :
                         /\ Property(valueObj, "required") # <<Bool(FALSE)>>
                         /\ Property(valueObj, "hasDefaultValue") # <<Bool(TRUE)>>))

\* processedData: with minimizeOutput, the response without "self" keys and,
\* when it is an object with values, with its values filtered.  An array
\* is left as removeSelfKeys made it: the values it gets is not an index.
ProcessedData(response, minimizeOutput) ==
    IF ~minimizeOutput THEN response
    ELSE LET processedData == removeSelfKeys(response)
         IN  IF Len(Property(processedData, "values")) = 1
             THEN Obj([i \in DOMAIN processedData.entries |->
                         IF processedData.entries[i].key = "values"
                         THEN Entry("values",
                                    filterFieldsForMinimize(processedData.entries[i].value))
                         ELSE processedData.entries[i]])
             ELSE processedData

getJiraIssueTypeMetadata ==
    /\ pc = "getJiraIssueTypeMetadata"
    /\ \E out \in RequestOutcomes :
         /\ Exchange(Request("GET",
                             buildUrl(<<"issue/createmeta/", call.args.projectIdOrKey,
                                        "/issuetypes/", call.args.issueTypeId>>,
                                      SearchParams(MetadataQueryParams(
                                          call.args.startAt, call.args.maxResults))),
                             NoBody, Empty), out)
         /\ IF out.ok
            THEN \E response \in MetadataResponses :
                   /\ local' = [local EXCEPT !.response = response]
                   /\ Complete(Returned(
                         [success |-> TRUE,
                          data |-> ProcessedData(response, call.args.minimizeOutput),
                          projectIdOrKey |-> call.args.projectIdOrKey,
                          issueTypeId |-> call.args.issueTypeId,
                          minimizeOutput |-> call.args.minimizeOutput,
                          pagination |->
                            [startAt |-> call.args.startAt,
                             maxResults |-> IF call.args.maxResults = 0 THEN 50
                                            ELSE call.args.maxResults]]),
                         NoError)
            ELSE /\ local' = local
                 /\ Complete(Returned([success |-> FALSE, message |-> out.error.message,
                                       projectIdOrKey |-> call.args.projectIdOrKey,
                                       issueTypeId |-> call.args.issueTypeId,
                                       minimizeOutput |-> call.args.minimizeOutput,
                                       error |-> out.error]), out.error)
    /\ UNCHANGED <<issueLabels, calls, email, token, call, rq, log>>

getIssueTypes ==
    /\ pc = "getIssueTypes"
    /\ \E out \in RequestOutcomes, shape \in {"projects", "array", "values", "other"} :
         /\ Exchange(Request("GET", <<"issue/createmeta/", call.args.projectIdOrKey,
                                      "/issuetypes">>, NoBody, Empty), out)
         /\ out.noContent => shape = "other"
         /\ ~out.ok => shape = "other"
         /\ IF out.ok /\ shape # "other"
            THEN Complete(Returned([success |-> TRUE, issueTypes |-> <<>>,
                                    startAt |-> call.args.startAt,
                                    maxResults |-> call.args.maxResults,
                                    total |-> 0]), NoError)
            ELSE IF out.ok
            THEN Complete(Returned([success |-> FALSE,
                                    error |-> <<"Unexpected response structure from Jira API">>,
                                    projectIdOrKey |-> call.args.projectIdOrKey]),
                          NewError("Error",
                                   <<"Unexpected response structure from Jira API">>,
                                   0, NoDetails))
            ELSE Complete(Returned([success |-> FALSE, error |-> out.error.message,
                                    projectIdOrKey |-> call.args.projectIdOrKey]),
                          out.error)
    /\ UNCHANGED <<issueLabels, calls, email, token, call, local, rq, log>>

-----------------------------------------------------------------------------
(* getProjectConfig *)

getProject ==
    /\ pc = "getProject"
    /\ \E out \in RequestOutcomes :
         /\ Exchange(Request("GET",
                             <<"project/", call.args.projectKey,
                               "?expand=description,issueTypes,lead,projectKeys,issueTypeHierarchy">>,
                             NoBody, Empty), out)
         /\ IF ~out.ok
            THEN Complete(Returned([success |-> FALSE, error |-> out.error.message,
                                    projectKey |-> call.args.projectKey]), out.error)
            ELSE IF call.args.includeMetadata
            THEN pc' = "getPriorities" /\ UNCHANGED <<opResult, reply>>
            ELSE Complete(Returned([success |-> TRUE, project |-> "project"]), NoError)
    /\ UNCHANGED <<issueLabels, calls, email, token, call, local, rq, log>>

\* The three metadata requests: each sits in its own try/catch whose catch
\* only writes to the console.
getPriorities ==
    /\ pc = "getPriorities"
    /\ \E out \in RequestOutcomes :
         Exchange(Request("GET", <<"priority">>, NoBody, Empty), out)
    /\ pc' = "getStatuses"
    /\ UNCHANGED <<issueLabels, calls, email, token, call, local, opResult, reply, rq, log>>

getStatuses ==
    /\ pc = "getStatuses"
    /\ \E out \in RequestOutcomes :
         Exchange(Request("GET", <<"project/", call.args.projectKey, "/statuses">>,
                          NoBody, Empty), out)
    /\ pc' = "getCreateMeta"
    /\ UNCHANGED <<issueLabels, calls, email, token, call, local, opResult, reply, rq, log>>

getCreateMeta ==
    /\ pc = "getCreateMeta"
    /\ \E out \in RequestOutcomes :
         Exchange(Request("GET",
                          <<"issue/createmeta?projectKeys=", call.args.projectKey,
                            "&expand=projects.issuetypes.fields">>, NoBody, Empty), out)
    /\ Complete(Returned([success |-> TRUE, project |-> "project",
                          metadata |-> "metadata"]), NoError)
    /\ UNCHANGED <<issueLabels, calls, email, token, call, local, rq, log>>

-----------------------------------------------------------------------------
(* Status transitions (status.ts) *)

\* The parameters transitionJiraStatus runs with: those of the tool call, or
\* those transitionJiraStatusByName passes on, which updateJiraIssue calls
\* with the status field's name, comment and resolution.
StatusField == call.args.fields.status

TransitionParams ==
    IF call.name = "update_jira_issue"
    THEN [issueIdOrKey |-> call.args.issueIdOrKey,
          transitionId |-> local.transitionId,
          comment |-> Get(StatusField, "comment"),
          resolution |-> Get(StatusField, "resolution"),
          fields |-> <<>>]
    ELSE [issueIdOrKey |-> call.args.issueIdOrKey,
          transitionId |-> IF call.name = "transition_jira_status"
                           THEN call.args.transitionId ELSE local.transitionId,
          comment |-> Get(call.args, "comment"),
          resolution |-> Get(call.args, "resolution"),
          fields |-> Get(call.args, "fields")]

\* The target status name transitionJiraStatusByName looks for.
StatusName ==
    IF call.name = "update_jira_issue" THEN StatusField.name ELSE call.args.statusName

\* if (comment): a comment that is present and not the empty string.
Truthy(optionalText) == Len(optionalText) = 1 /\ optionalText[1] # ""

BodyWithCommentMutant(transitionId, resolution, additionalFields) ==
    [transition |-> [id |-> transitionId],
     update |-> [comment |-> <<[add |-> [body |-> TransitionParams.comment]]>>]]
    @@ (IF Len(resolution) = 1
        THEN [fields |-> [resolution |-> resolution[1]]] ELSE Empty)

createTransitionRequestBody(transitionId, resolution, additionalFields) ==
    LET body == [transition |-> [id |-> transitionId]]
        withResolution ==
            IF Len(resolution) = 1
            THEN body @@ [fields |-> [resolution |-> resolution[1]]]
            ELSE body
    IN  IF Len(additionalFields) = 1
        THEN [fields |-> additionalFields[1]
                         @@ (IF "fields" \in DOMAIN withResolution
                             THEN withResolution.fields ELSE Empty)]
             @@ withResolution
        ELSE withResolution

\* transitionJiraStatus returns: to the handler, or to updateJiraIssue, which
\* hands a failure on and rewrites the message of a success.
FinishTransition(result, cause) ==
    IF call.name = "update_jira_issue" /\ result.success
    THEN Complete(Returned(formatResponse(TRUE,
                      <<"Successfully updated issue ", call.args.issueIdOrKey,
                        " and transitioned to status \"", StatusField.name, "\"">>,
                      result.data)), NoError)
    ELSE Complete(Returned(result), cause)

findTransitionIdByStatusName(transitions, targetStatusName) ==
    LET matches == { i \in DOMAIN transitions :
                       ToLowerCase(transitions[i].to.name)
                         = ToLowerCase(targetStatusName) }
    IN  IF matches = {} THEN <<>>
        ELSE <<transitions[CHOOSE i \in matches : \A j \in matches : i <= j].id>>

TypeErrorFind ==
    NewError("Error", <<"Cannot read properties of undefined (reading 'find')">>,
             0, NoDetails)

transitionJiraStatusByName ==
    /\ pc = "transitionByName"
    /\ \E out \in RequestOutcomes, transitions \in TransitionLists :
         /\ Exchange(Request("GET", <<"issue/", call.args.issueIdOrKey, "/transitions">>,
                             NoBody, Empty), out)
         /\ (~out.ok \/ out.noContent) => transitions = <<>>
         /\ IF ~out.ok
            THEN /\ FinishTransition(handleOperationError(out.error,
                                         "transitioning status by name"), out.error)
                 /\ UNCHANGED local
            ELSE IF out.noContent
            THEN /\ FinishTransition(handleOperationError(TypeErrorFind,
                                         "transitioning status by name"), TypeErrorFind)
                 /\ UNCHANGED local
            ELSE LET found == findTransitionIdByStatusName(transitions, StatusName) IN
                 IF Len(found) = 0
                 THEN /\ FinishTransition(formatResponse(FALSE,
                              <<"Could not find a transition to status \"", StatusName,
                                "\". Available transitions are: ">>
                              \o Join([i \in DOMAIN transitions |-> transitions[i].to.name],
                                      ", "),
                              "undefined"), NoError)
                      /\ UNCHANGED local
                 ELSE /\ local' = [local EXCEPT !.transitionId = found[1]]
                      /\ pc' = "transition"
                      /\ UNCHANGED <<opResult, reply>>
    /\ UNCHANGED <<issueLabels, calls, email, token, call, rq, log>>

TransitionedMessage ==
    <<"Successfully transitioned status of issue ", TransitionParams.issueIdOrKey>>

\* Whether transitionJiraStatus goes on to addJiraComment: the transition
\* request has returned and a comment was given.
CommentAfterFailureMutant(out) == Truthy(TransitionParams.comment)

CommentFollows(out) == out.ok /\ Truthy(TransitionParams.comment)

\* transitionJiraStatus up to the response of the transition request.
transitionJiraStatus ==
    /\ pc = "transition"
    /\ \E out \in RequestOutcomes :
         /\ Exchange(Request("POST",
                             <<"issue/", TransitionParams.issueIdOrKey, "/transitions">>,
                             createTransitionRequestBody(TransitionParams.transitionId,
                                                         TransitionParams.resolution,
                                                         TransitionParams.fields),
                             Empty), out)
         /\ IF CommentFollows(out)
            THEN pc' = "transitionComment" /\ UNCHANGED <<opResult, reply>>
            ELSE IF ~out.ok
            THEN FinishTransition(handleOperationError(out.error, "transitioning status"),
                                  out.error)
            ELSE FinishTransition(formatResponse(TRUE, TransitionedMessage,
                                      [transition |-> "response", comment |-> "null"]),
                                  NoError)
    /\ UNCHANGED <<issueLabels, calls, email, token, call, local, rq, log>>

\* The rest of transitionJiraStatus: addJiraComment, whose own catch turns
\* an error into {success: false, message}.
CommentFailsTransitionMutant(commentOk, commentMessage) ==
    IF commentOk
    THEN formatResponse(TRUE, TransitionedMessage \o <<" and added comment">>,
                        [transition |-> "response", comment |-> "result"])
    ELSE formatResponse(FALSE,
                        <<"Error ", "transitioning status", ": ">> \o commentMessage,
                        "undefined")

TransitionResult(commentOk, commentMessage) ==
    formatResponse(TRUE,
                   TransitionedMessage
                   \o (IF commentOk THEN <<" and added comment">>
                       ELSE <<" but failed to add comment: ">> \o commentMessage),
                   [transition |-> "response", comment |-> "result"])

transitionComment ==
    /\ pc = "transitionComment"
    /\ \E out \in RequestOutcomes :
         /\ Exchange(Request("POST",
                             <<"issue/", TransitionParams.issueIdOrKey, "/comment">>,
                             [body |-> TransitionParams.comment[1]], Empty), out)
         /\ FinishTransition(TransitionResult(out.ok, out.error.message), NoError)
    /\ UNCHANGED <<issueLabels, calls, email, token, call, local, rq, log>>

-----------------------------------------------------------------------------
(* updateJiraIssue (update.ts) *)

Restrict(f, keys) == [k \in keys |-> f[k]]

\* [...new Set(list)]: the first occurrence of each element, in order.
RECURSIVE Dedupe(_)
Dedupe(list) ==
    IF Len(list) = 0 THEN <<>>
    ELSE LET front == Dedupe(SubSeq(list, 1, Len(list) - 1))
             last == list[Len(list)]
         IN  IF last \in Range(front) THEN front ELSE Append(front, last)

UpdateFieldsArg == IF "fields" \in DOMAIN call.args THEN call.args.fields ELSE Empty

HasStatusField == "status" \in DOMAIN UpdateFieldsArg

LinkedIssues ==
    IF "linkedIssues" \in DOMAIN call.args THEN call.args.linkedIssues ELSE <<>>

\* fields without status, labels replaced by the merge of the labels read
\* from Jira and the labels of the call.
FieldsWithStatusMutant(existingLabelNames) ==
    LET newLabels == IF "labels" \in DOMAIN UpdateFieldsArg
                     THEN UpdateFieldsArg.labels ELSE <<>>
    IN  [labels |-> Dedupe(existingLabelNames \o newLabels)]
        @@ Restrict(UpdateFieldsArg, DOMAIN UpdateFieldsArg \ {"labels"})

FieldsWithoutStatus(existingLabelNames) ==
    LET newLabels == IF "labels" \in DOMAIN UpdateFieldsArg
                     THEN UpdateFieldsArg.labels ELSE <<>>
    IN  [labels |-> Dedupe(existingLabelNames \o newLabels)]
        @@ Restrict(UpdateFieldsArg, DOMAIN UpdateFieldsArg \ {"status", "labels"})

UpdateArg == IF "update" \in DOMAIN call.args THEN call.args.update ELSE Empty

\* The steps after the field update: the links, then the status, then the
\* plain success.
AfterLinks ==
    IF HasStatusField
    THEN pc' = "transitionByName" /\ UNCHANGED <<opResult, reply>>
    ELSE Complete(Returned(formatResponse(TRUE,
                      <<"Successfully updated issue ", call.args.issueIdOrKey>>,
                      "undefined")), NoError)

AfterPut ==
    IF Len(LinkedIssues) > 0
    THEN pc' = "updateLinks" /\ UNCHANGED <<opResult, reply>>
    ELSE AfterLinks

updateGetLabels ==
    /\ pc = "updateGetLabels"
    /\ \E out \in RequestOutcomes, labels \in LabelLists :
         /\ Exchange(Request("GET", <<"issue/", call.args.issueIdOrKey, "?fields=labels">>,
                             NoBody, Empty), out)
         /\ (~out.ok \/ out.noContent) => labels = <<>>
         /\ IF ~out.ok
            THEN /\ Complete(Returned(handleOperationError(out.error, "updating issue")),
                             out.error)
                 /\ UNCHANGED local
            ELSE /\ local' = [local EXCEPT !.existingLabels = labels]
                 /\ IF \/ DOMAIN FieldsWithoutStatus(labels) # {}
                       \/ DOMAIN UpdateArg # {}
                    THEN pc' = "updatePut" /\ UNCHANGED <<opResult, reply>>
                    ELSE AfterPut
    /\ UNCHANGED <<issueLabels, calls, email, token, call, rq, log>>

PutContinuesAfterFailureMutant ==
    /\ pc = "updatePut"
    /\ \E out \in RequestOutcomes :
         /\ Exchange(Request("PUT", <<"issue/", call.args.issueIdOrKey>>,
                             [fields |-> FieldsWithoutStatus(local.existingLabels),
                              update |-> UpdateArg], Empty), out)
         /\ AfterPut
    /\ UNCHANGED <<issueLabels, calls, email, token, call, local, rq, log>>

updatePut ==
    /\ pc = "updatePut"
    /\ \E out \in RequestOutcomes :
         /\ Exchange(Request("PUT", <<"issue/", call.args.issueIdOrKey>>,
                             [fields |-> FieldsWithoutStatus(local.existingLabels),
                              update |-> UpdateArg], Empty), out)
         /\ IF ~out.ok
            THEN Complete(Returned(handleOperationError(out.error, "updating issue")),
                          out.error)
            ELSE AfterPut
    /\ UNCHANGED <<issueLabels, calls, email, token, call, local, rq, log>>

LinkRequest(link) ==
    Request("POST", <<"issueLink">>,
            [type |-> [name |-> link.type],
             outwardIssue |-> [key |-> link.fromIssueKey],
             inwardIssue |-> [key |-> link.toIssueKey]], Empty)

\* linkedIssues.map(link => jiraRequest('issueLink', ...)): every call runs
\* up to its fetch before the map returns.
LinkRequestsFirstOnlyMutant(links) == <<LinkRequest(links[1])>>

LinkRequests(links) == [i \in DOMAIN links |-> LinkRequest(links[i])]

updateStartLinks ==
    /\ pc = "updateLinks"
    /\ sent' = sent \o LinkRequests(LinkedIssues)
    /\ pc' = "awaitLinks"
    /\ UNCHANGED <<issueLabels, calls, email, token, call, local, opResult, reply, rq, log>>

\* The response of one link request.  While Promise.all is awaited, the
\* first rejection ends the operation and the last fulfilment lets it go
\* on; a response that comes after the operation has ended changes nothing
\* in it.
updateLinkResponse ==
    /\ pc \in {"awaitLinks", "done"}
    /\ \E i \in DOMAIN sent, out \in RequestOutcomes :
         /\ sent[i].outcome = "pending"
         /\ sent' = [sent EXCEPT ![i] = Delivered(sent[i], out)]
         /\ IF pc = "done"
            THEN UNCHANGED <<pc, opResult, reply>>
            ELSE IF ~out.ok
            THEN Complete(Returned(handleOperationError(out.error, "updating issue")),
                          out.error)
            ELSE IF \A j \in DOMAIN sent : j # i => sent[j].outcome # "pending"
            THEN AfterLinks
            ELSE UNCHANGED <<pc, opResult, reply>>
    /\ UNCHANGED <<issueLabels, calls, email, token, call, local, rq, log>>

-----------------------------------------------------------------------------
Init ==
    /\ email \in Emails
    /\ token \in Tokens
    /\ call = [name |-> "none", args |-> Empty]
    /\ pc = "idle"
    /\ local = NoLocal
    /\ sent = <<>>
    /\ opResult = [type |-> "none"]
    /\ reply = [type |-> "none"]
    /\ rq = [phase |-> "idle"]
    /\ log = <<>>
    /\ issueLabels = <<>>
    /\ calls = <<>>

Next ==
    \/ ListTools
    \/ CallTool
    \/ awaitNextRequest
    \/ testAuth
    \/ searchDirect
    \/ searchJql
    \/ createJiraIssue
    \/ getJiraComments
    \/ addJiraComment
    \/ getJiraTransitions
    \/ getProjectComponents
    \/ getJiraIssueTypeMetadata
    \/ getIssueTypes
    \/ getProject
    \/ getPriorities
    \/ getStatuses
    \/ getCreateMeta
    \/ transitionJiraStatusByName
    \/ transitionJiraStatus
    \/ transitionComment
    \/ updateGetLabels
    \/ updatePut
    \/ updateStartLinks
    \/ updateLinkResponse

Spec == Init /\ [][Next]_vars

-----------------------------------------------------------------------------
(* jiraRequest line by line, with the log file (utils.ts) *)

Line(label, content) == [label |-> label, content |-> content]

\* The lines jiraRequest appends before it awaits fetch.
HeadersLogUnredactedMutant(headers) == Line("Headers", headers)

HeadersLog(headers) ==
    Line("Headers", ("Authorization" :> Redacted) @@ headers)

RequestLogLines(e, t, request) ==
    << Line("note", <<constructAuthHeader(e, t).note>>),
       Line("Making request to", request.url),
       Line("Method", <<request.method>>),
       HeadersLog(("Authorization" :> constructAuthHeader(e, t).value)
                  @@ request.headers) >>
    \o (IF request.body # NoBody
        THEN <<Line("Request body", request.body)>> ELSE <<>>)

SensitiveKeys == {"token", "password", "secret"}

\* JSON.stringify(responseBody, replacer): the replacer is called with every
\* key of every object and array of the body, and its result is not visited.
RECURSIVE Sanitize(_)
Sanitize(value) ==
    [value EXCEPT !.entries =
        [i \in DOMAIN value.entries |->
            IF ToLowerCase(value.entries[i].key) \in SensitiveKeys
            THEN Entry(value.entries[i].key, Str("[REDACTED]"))
            ELSE Entry(value.entries[i].key, Sanitize(value.entries[i].value))]]

\* The lines it appends once fetch has settled.
ResponseLogLines(resp) ==
    LET out == JiraRequestOutcome(resp)
        failed == IF out.ok THEN <<>>
                  ELSE <<Line("Request failed", out.error.message)>>
    IN  IF resp.ctype = "network" THEN failed
        ELSE << Line("Response status", <<ToString(resp.status)>>),
                Line("Response headers", <<resp.ctype>>) >>
             \o (IF resp.status = 204 THEN <<>>
                 ELSE IF resp.ctype = "application/xml"
                 THEN <<Line("Received XML response", <<"xml">>)>>
                 ELSE <<Line("Response body",
                             [payload |-> resp.payload,
                              data |-> IF resp.ctype = "application/json"
                                       THEN Sanitize(resp.data) ELSE resp.data])>>)
             \o failed

\* The calls of jiraRequest the operations make: method, path, body and the
\* headers the caller passes.
SiteRequests ==
    { [method |-> "GET", path |-> <<"myself">>, body |-> NoBody, extra |-> Empty],
      [method |-> "GET", path |-> <<"issue/", IssueKey>>, body |-> NoBody,
       extra |-> [Accept |-> <<"application/json">>]],
      [method |-> "GET",
       path |-> buildUrl(<<"search">>, <<"?jql=", EncodeQueryValue("project = PROJ")>>),
       body |-> NoBody, extra |-> Empty],
      [method |-> "POST", path |-> <<"issue/", IssueKey, "/comment">>,
       body |-> [body |-> "note"], extra |-> Empty],
      [method |-> "POST", path |-> <<"issue/", IssueKey, "/transitions">>,
       body |-> [transition |-> [id |-> "5"]], extra |-> Empty],
      [method |-> "POST", path |-> <<"issue/", IssueKey, "/transitions">>,
       body |-> [transition |-> [id |-> "5"], fields |-> [password |-> "s3cret"]],
       extra |-> Empty],
      [method |-> "GET", path |-> <<"project/", ProjectKey, "/components">>,
       body |-> NoBody, extra |-> [Accept |-> <<"application/json">>]] }

\* jiraRequest is called: it builds the headers, writes the request to the
\* log and starts fetch.
RequestCall ==
    /\ rq.phase = "idle"
    /\ \E site \in SiteRequests :
         LET request == Request(site.method, site.path, site.body, site.extra) IN
         /\ rq' = [phase |-> "fetching", request |-> request]
         /\ log' = RequestLogLines(email, token, request)
    /\ UNCHANGED <<issueLabels, calls, email, token, call, pc, local, sent, opResult, reply>>

\* fetch settles: jiraRequest writes the response to the log and returns the
\* body or throws.
RequestSettles ==
    /\ rq.phase = "fetching"
    /\ \E resp \in Responses :
         /\ rq' = [phase |-> "settled", request |-> rq.request, response |-> resp,
                   outcome |-> JiraRequestOutcome(resp)]
         /\ log' = log \o ResponseLogLines(resp)
    /\ UNCHANGED <<issueLabels, calls, email, token, call, pc, local, sent, opResult, reply>>

\* The caller goes on; the lines followed are those of the next call.
RequestReturns ==
    /\ rq.phase = "settled"
    /\ rq' = [phase |-> "idle"]
    /\ log' = <<>>
    /\ UNCHANGED <<issueLabels, calls, email, token, call, pc, local, sent, opResult, reply>>

NextRequest == RequestCall \/ RequestSettles \/ RequestReturns

SpecRequest == Init /\ [][NextRequest]_vars

-----------------------------------------------------------------------------
(* updateJiraIssue calls on one issue, in progress together (update.ts) *)

\* Number of update_jira_issue calls the server handles together: the
\* handler of a call is suspended at each await, and the handler of another
\* call runs meanwhile.
NumCalls == 2

\* Each call adds a label of its own (fields.labels) to an issue that has
\* some labels already, and stands at its first await.
InitInterleaved ==
    /\ email \in Emails
    /\ token \in Tokens
    /\ call = [name |-> "none", args |-> Empty]
    /\ pc = "idle"
    /\ local = NoLocal
    /\ sent = <<>>
    /\ opResult = [type |-> "none"]
    /\ reply = [type |-> "none"]
    /\ rq = [phase |-> "idle"]
    /\ log = <<>>
    /\ issueLabels \in { <<>>, <<"old">>, <<"old", "older">> }
    /\ calls = [c \in 1..NumCalls |->
                  [pc |-> "updateGetLabels", newLabels |-> <<"label" \o ToString(c)>>,
                   existingLabels |-> <<>>, result |-> "none"]]

\* The GET of the labels of call c is answered: Jira returns the labels it
\* holds at that moment, or the request fails and the call ends.
InterleavedGetLabels ==
    \E c \in 1..NumCalls, out \in RequestOutcomes :
       /\ calls[c].pc = "updateGetLabels"
       /\ Exchange(Request("GET", <<"issue/", IssueKey, "?fields=labels">>,
                           NoBody, Empty), out)
       /\ calls' = [calls EXCEPT ![c] =
                      IF out.ok
                      THEN [@ EXCEPT !.pc = "updatePut",
                                     !.existingLabels =
                                        IF out.noContent THEN <<>> ELSE issueLabels]
                      ELSE [@ EXCEPT !.pc = "done", !.result = "failure"]]
       /\ UNCHANGED <<issueLabels, email, token, call, pc, local, opResult, reply,
                      rq, log>>

\* The PUT of call c is answered: Jira has set the labels of the issue to
\* the labels of the body, or the request fails and the issue is as it was.
InterleavedPut ==
    \E c \in 1..NumCalls, out \in RequestOutcomes :
       /\ calls[c].pc = "updatePut"
       /\ LET allLabels == Dedupe(calls[c].existingLabels \o calls[c].newLabels)
          IN  /\ Exchange(Request("PUT", <<"issue/", IssueKey>>,
                                  [fields |-> [labels |-> allLabels], update |-> Empty],
                                  Empty), out)
              /\ issueLabels' = IF out.ok THEN allLabels ELSE issueLabels
       /\ calls' = [calls EXCEPT ![c] =
                      [@ EXCEPT !.pc = "done",
                                !.result = IF out.ok THEN "success" ELSE "failure"]]
       /\ UNCHANGED <<email, token, call, pc, local, opResult, reply, rq, log>>

NextInterleaved == InterleavedGetLabels \/ InterleavedPut

SpecInterleaved == InitInterleaved /\ [][NextInterleaved]_vars

-----------------------------------------------------------------------------
(* Properties of the status transition *)

TransitionTools ==
    {"transition_jira_status", "transition_jira_status_by_name", "update_jira_issue"}

IsTransitionPost(request) ==
    /\ call.name \in TransitionTools
    /\ request.method = "POST"
    /\ request.path = <<"issue/", call.args.issueIdOrKey, "/transitions">>

IsCommentPost(request) ==
    /\ call.name \in TransitionTools
    /\ request.method = "POST"
    /\ request.path = <<"issue/", call.args.issueIdOrKey, "/comment">>

\* The caller's comment, resolution and additional fields, as given.
SuppliedComment == TransitionParams.comment

\* C1: the body of every POST to issue/{key}/transitions holds the
\* transition id under transition, and under fields (present only when a
\* resolution or fields were given) the given fields over the resolution;
\* it has no other property, so the comment is not in it.
C1_TransitionBodyHasNoComment ==
    \A i \in DOMAIN sent :
      IsTransitionPost(sent[i]) =>
        LET body == sent[i].body
            resolution == TransitionParams.resolution
            additional == TransitionParams.fields
            given == IF Len(additional) = 1 THEN additional[1] ELSE Empty
            expected == DOMAIN given
                        \cup (IF Len(resolution) = 1 THEN {"resolution"} ELSE {})
        IN  /\ DOMAIN body \subseteq {"transition", "fields"}
            /\ body.transition = [id |-> TransitionParams.transitionId]
            /\ ("fields" \in DOMAIN body) <=> (Len(resolution) = 1 \/ Len(additional) = 1)
            /\ "fields" \in DOMAIN body =>
                 /\ DOMAIN body.fields = expected
                 /\ \A k \in expected :
                      body.fields[k] = IF k \in DOMAIN given THEN given[k]
                                       ELSE resolution[1]

C1_Witness ==
    /\ call.name = "transition_jira_status"
    /\ \E i \in DOMAIN sent : IsTransitionPost(sent[i]) /\ "fields" \in DOMAIN sent[i].body
    /\ Truthy(SuppliedComment)
    /\ Len(TransitionParams.resolution) = 1
    /\ Len(TransitionParams.fields) = 1

\* C2: once the transition request has succeeded, the operation returns
\* success = true whatever becomes of the comment request, and a failed
\* comment request shows in the message only.
C2_CommentFailureKeepsSuccess ==
    (/\ pc = "done"
     /\ call.name \in TransitionTools
     /\ \E i \in DOMAIN sent : IsTransitionPost(sent[i]) /\ sent[i].outcome = "ok")
    => /\ opResult.type = "return"
       /\ opResult.value.success = TRUE
       /\ reply.type = "content"
       /\ (/\ call.name # "update_jira_issue"
           /\ \E j \in DOMAIN sent : IsCommentPost(sent[j]) /\ sent[j].outcome = "failed")
          => \E k \in DOMAIN opResult.value.message :
               opResult.value.message[k] = " but failed to add comment: "

C2_Witness ==
    /\ pc = "done"
    /\ call.name = "transition_jira_status_by_name"
    /\ \E i \in DOMAIN sent : IsTransitionPost(sent[i]) /\ sent[i].outcome = "ok"
    /\ \E j \in DOMAIN sent : IsCommentPost(sent[j]) /\ sent[j].outcome = "failed"
    /\ opResult.value.success

\* C3: a comment request is sent only for a comment that was given and only
\* after a transition request that succeeded; after a failed transition
\* request there is no comment request and the result is success = false.
C3_CommentOnlyAfterTransition ==
    call.name \in TransitionTools =>
      /\ \A j \in DOMAIN sent :
           IsCommentPost(sent[j]) =>
             /\ Truthy(SuppliedComment)
             /\ \E i \in 1..(j - 1) :
                  IsTransitionPost(sent[i]) /\ sent[i].outcome = "ok"
      /\ (\E i \in DOMAIN sent : IsTransitionPost(sent[i]) /\ sent[i].outcome = "failed")
         => /\ \A j \in DOMAIN sent : ~IsCommentPost(sent[j])
            /\ pc = "done"
            /\ opResult.type = "return"
            /\ opResult.value.success = FALSE

C3_Witness ==
    /\ call.name = "transition_jira_status"
    /\ pc = "done"
    /\ \E i \in DOMAIN sent : IsTransitionPost(sent[i]) /\ sent[i].outcome = "failed"
    /\ Truthy(SuppliedComment)
    /\ opResult.value.success = FALSE

-----------------------------------------------------------------------------
(* Properties of errors *)

\* The error class the taxonomy names for an HTTP status.
KindOfStatus(status) ==
    CASE status = 401 -> "JiraAuthenticationError"
      [] status = 403 -> "JiraPermissionError"
      [] status = 404 -> "JiraResourceNotFoundError"
      [] status = 409 -> "JiraConflictError"
      [] status \in {400, 422} -> "JiraValidationError"
      [] status = 429 -> "JiraRateLimitError"
      [] OTHER -> "JiraError"

Failed(i) == sent[i].outcome = "failed"

\* The operation ended with an error: it threw or returned success: false.
ErrorOutcome ==
    \/ opResult.type = "throw"
    \/ /\ opResult.type = "return"
       /\ "success" \in DOMAIN opResult.value
       /\ opResult.value.success = FALSE

\* The requests whose failure the operation catches and goes on from: the
\* direct fetch of search, the metadata requests of getProjectConfig, and
\* the comment request after a transition.
Caught(i) ==
    \/ /\ call.name = "search_jira_issues"
       /\ sent[i].path = <<"issue/", call.args.jql>>
    \/ /\ call.name = "get_project_config"
       /\ i > 1
    \/ IsCommentPost(sent[i])

SameRequest(a, b) ==
    /\ a.method = b.method
    /\ a.url = b.url
    /\ a.body = b.body

\* C5 as stated: once a request of an operation has failed, the operation
\* sends no further request and ends with an error.
C5_NoRequestAfterFailure ==
    /\ [][(\E i \in DOMAIN sent : Failed(i)) => Len(sent') <= Len(sent)]_vars
    /\ []((pc = "done" /\ \E i \in DOMAIN sent : Failed(i)) => ErrorOutcome)

\* C5: no failed request is sent again; and once a request has failed, other
\* than the direct fetch of search, a metadata request of getProjectConfig
\* or the comment request after a transition, the operation sends no
\* further request and ends with an error.
C5_FailureEndsOperation ==
    /\ [](\A i \in DOMAIN sent : \A j \in DOMAIN sent :
            (Failed(i) /\ i < j) => ~SameRequest(sent[i], sent[j]))
    /\ [][(\E i \in DOMAIN sent : Failed(i) /\ ~Caught(i))
          => Len(sent') <= Len(sent)]_vars
    /\ []((\E i \in DOMAIN sent : Failed(i) /\ ~Caught(i))
          => (pc = "done" /\ ErrorOutcome))

C5_Witness ==
    /\ call.name = "search_jira_issues"
    /\ Len(sent) = 2
    /\ Failed(1) /\ Caught(1)
    /\ Failed(2) /\ ~Caught(2)
    /\ pc = "done"
    /\ ErrorOutcome

\* C6: whenever the handler has its result, for every tool and for both
\* outcomes, the result is an object with a boolean success and a message.
C6_StandardFormat ==
    pc = "done"
    => /\ reply.type = "content"
       /\ {"success", "message"} \subseteq DOMAIN reply.result
       /\ reply.result.success \in BOOLEAN

\* The pieces of part appear one after another in message.
Contains(message, part) ==
    \E i \in 0..(Len(message) - Len(part)) :
       \A k \in 1..Len(part) : message[i + k] = part[k]

\* C7: when the operation failed, what the caller receives holds
\* success: false and the message of the error that made it fail.
C7_FailureReachesCaller ==
    (pc = "done" /\ opResult.cause # NoError)
    => /\ reply.type = "content"
       /\ {"success", "message"} \subseteq DOMAIN reply.result
       /\ reply.result.success = FALSE
       /\ Contains(reply.result.message, opResult.cause.message)

-----------------------------------------------------------------------------
(* Properties of the issue links of updateJiraIssue *)

IsLinkPost(request) == request.method = "POST" /\ request.path = <<"issueLink">>

IsTransitionRequest(request) ==
    request.path = <<"issue/", call.args.issueIdOrKey, "/transitions">>

\* A link request is rejected in the step.
LinkRejected ==
    \E i \in DOMAIN sent :
       /\ i \in DOMAIN sent'
       /\ IsLinkPost(sent[i])
       /\ sent[i].outcome = "pending"
       /\ sent'[i].outcome = "failed"

\* C8: updateJiraIssue starts one POST issueLink per entry of linkedIssues,
\* all of them before the response of any; it goes on only when all have
\* succeeded; the first rejection ends the operation with an error and no
\* transition is requested; the other link requests stay in flight, their
\* responses change nothing in the result, and no request undoes a link.
C8_LinksStartedTogether ==
    /\ [][pc = "updateLinks" =>
            /\ Len(sent') = Len(sent) + Len(LinkedIssues)
            /\ SubSeq(sent', 1, Len(sent)) = sent
            /\ \A k \in DOMAIN LinkedIssues :
                 LET request == sent'[Len(sent) + k] IN
                 /\ IsLinkPost(request)
                 /\ request.outcome = "pending"
                 /\ request.body = [type |-> [name |-> LinkedIssues[k].type],
                                    outwardIssue |-> [key |-> LinkedIssues[k].fromIssueKey],
                                    inwardIssue |-> [key |-> LinkedIssues[k].toIssueKey]]]_vars
    /\ [][(pc = "awaitLinks" /\ LinkRejected) =>
            /\ pc' = "done"
            /\ opResult'.type = "return"
            /\ opResult'.value.success = FALSE
            /\ opResult'.cause # NoError
            /\ opResult'.value.message
                 = <<"Error ", "updating issue", ": ">> \o opResult'.cause.message]_vars
    /\ [][(pc = "awaitLinks" /\ pc' # "awaitLinks" /\ ~LinkRejected) =>
            \A i \in DOMAIN sent' : sent'[i].outcome = "ok"]_vars
    /\ []((call.name = "update_jira_issue"
           /\ \E i \in DOMAIN sent : IsLinkPost(sent[i]) /\ Failed(i))
          => /\ pc = "done"
             /\ ErrorOutcome
             /\ \A j \in DOMAIN sent : ~IsTransitionRequest(sent[j]))
    /\ [][\A i \in DOMAIN sent :
            sent[i].outcome = "pending" =>
              /\ i \in DOMAIN sent'
              /\ SameRequest(sent'[i], sent[i])]_vars
    /\ [][(pc = "done" /\ pc' = "done") =>
            /\ opResult' = opResult
            /\ reply' = reply
            /\ Len(sent') = Len(sent)
            /\ \A i \in DOMAIN sent :
                 sent[i].outcome # "pending" => sent'[i] = sent[i]]_vars
    /\ [](\A i \in DOMAIN sent : sent[i].method # "DELETE")

C8_Witness ==
    /\ call.name = "update_jira_issue"
    /\ pc = "done"
    /\ ErrorOutcome
    /\ Len(LinkedIssues) >= 2
    /\ \E i \in DOMAIN sent : \E j \in DOMAIN sent :
         /\ IsLinkPost(sent[i]) /\ Failed(i)
         /\ IsLinkPost(sent[j]) /\ sent[j].outcome = "ok"
         /\ i < j

-----------------------------------------------------------------------------
(* Properties of the Authorization header and of the log *)

PreEncoded(t) == IncludesColon(Base64Decode(t))

EncodedCredentials(e, t) == Base64Encode(Utf8Bytes(e \o <<":">> \o t))

LogFor(t) ==
    RequestLogLines(email, t, rq.request)
    \o (IF rq.phase = "settled" THEN ResponseLogLines(rq.response) ELSE <<>>)

\* No line of the log shows the Authorization header of the request, and the
\* logged headers show [REDACTED] in its place.
AuthorizationNotLogged ==
    \A i \in DOMAIN log :
       IF log[i].label = "Headers"
       THEN /\ log[i].content.Authorization = Redacted
            /\ \A k \in DOMAIN log[i].content :
                 log[i].content[k] # rq.request.headers.Authorization
       ELSE log[i].label \in {"note", "Making request to", "Method"}
            => ~Contains(log[i].content, rq.request.headers.Authorization)

\* C10 as stated: the Authorization header is in no line of the log, and
\* the log is the same whatever the token.
C10_LogSameForAnyToken ==
    rq.phase # "idle" =>
      /\ AuthorizationNotLogged
      /\ \A t \in Tokens : log = LogFor(t)

\* C10: the Authorization header is in no line of the log, the logged
\* headers show [REDACTED] also when the caller passes headers, and the log
\* is the same for any two tokens that are both pre-encoded or both not.
C10_LogSameForLikeTokens ==
    rq.phase # "idle" =>
      /\ AuthorizationNotLogged
      /\ \A t \in Tokens : (PreEncoded(t) <=> PreEncoded(token)) => log = LogFor(t)

C10_Witness ==
    /\ rq.phase = "settled"
    /\ rq.request.path = <<"project/", ProjectKey, "/components">>
    /\ \E i \in DOMAIN log :
         log[i].label = "Headers" /\ log[i].content.Authorization = Redacted
    /\ \E t \in Tokens : t # token /\ (PreEncoded(t) <=> PreEncoded(token))

-----------------------------------------------------------------------------
(* Properties of the bodies in the log *)

\* Some entry of the tree, at any depth, has a sensitive key and a value
\* other than [REDACTED].
RECURSIVE ShowsSensitive(_)
ShowsSensitive(value) ==
    \E i \in DOMAIN value.entries :
       \/ /\ ToLowerCase(value.entries[i].key) \in SensitiveKeys
          /\ value.entries[i].value # Str("[REDACTED]")
       \/ ShowsSensitive(value.entries[i].value)

\* The response bodies of the log show no value under a sensitive key.
ResponseBodiesRedacted ==
    \A i \in DOMAIN log :
       log[i].label = "Response body" => ~ShowsSensitive(log[i].content.data)

\* C11: no line of the log, for a request body or for a response body,
\* shows the value stored under a key named token, password or secret, in
\* any letter case and at any depth.
C11_SensitiveValuesNotLogged ==
    /\ ResponseBodiesRedacted
    /\ \A i \in DOMAIN log :
         (log[i].label = "Request body" /\ "fields" \in DOMAIN log[i].content)
         => \A k \in DOMAIN log[i].content.fields :
              ToLowerCase(k) \in SensitiveKeys
              => log[i].content.fields[k] = "[REDACTED]"

-----------------------------------------------------------------------------
(* Properties of the dispatch and of the validation of the arguments *)

UnknownToolReply(name) ==
    [type |-> "error", result |-> Empty, message |-> <<"Unknown tool: ", name>>]

\* The call in hand names a tool the server does not list.
UnlistedCall == call.name \notin ListedTools \cup {"none"}

\* No call of a listed tool is answered as an unknown tool.
ListedToolsDispatched ==
    reply = UnknownToolReply(call.name) => call.name \notin ListedTools

\* C12 as stated: the listed tools are those the handler dispatches, and a
\* call naming any other tool fails with 'Unknown tool: <name>' and sends no
\* request.
C12_UnknownToolAlwaysNamed ==
    /\ ListedToolsDispatched
    /\ UnlistedCall =>
         /\ pc = "done"
         /\ sent = <<>>
         /\ reply = UnknownToolReply(call.name)

\* C12: the listed tools are those the handler dispatches; a call naming any
\* other tool sends no request and fails, with 'Unknown tool: <name>' when
\* the request has arguments and with 'Arguments are required' when it has
\* none.
C12_UnknownToolRejected ==
    /\ ListedToolsDispatched
    /\ UnlistedCall =>
         /\ pc = "done"
         /\ sent = <<>>
         /\ reply = IF "undefined" \in DOMAIN call.args
                    THEN [type |-> "error", result |-> Empty,
                          message |-> <<"Arguments are required">>]
                    ELSE UnknownToolReply(call.name)

C12_Witness ==
    /\ UnlistedCall
    /\ "undefined" \notin DOMAIN call.args
    /\ pc = "done"
    /\ reply = UnknownToolReply("delete_jira_issue")

\* The lines the schema of the tool in hand is to reject the arguments in
\* hand with: one per failing path.
ExpectedIssueLines ==
    CASE call.name = "get_jira_comments" /\ "issueIdOrKey" \notin DOMAIN call.args
           -> {"* issueIdOrKey: Required"}
      [] call.name = "add_jira_comment" /\ "body" \notin DOMAIN call.args.comment
           -> {"* comment.body: Required"}
      [] call.name = "transition_jira_status" /\ DOMAIN call.args = {}
           -> {"* issueIdOrKey: Required", "* transitionId: Required"}
      [] call.name = "get_jira_issuetype" /\ call.args.maxResults > 200
           -> {"* maxResults: Number must be less than or equal to 200"}
      [] call.name = "create_jira_issue" /\ "bogus" \in DOMAIN call.args
           -> {"* : Unrecognized key(s) in object: 'bogus'"}
      [] OTHER -> {}

\* C13: when the arguments of a call do not pass the input schema of its
\* tool, no request is sent and the error the caller receives has a line
\* for each failing path with its message.
C13_InvalidArgumentsRejected ==
    (call.name \in ListedTools /\ "undefined" \notin DOMAIN call.args
     /\ ExpectedIssueLines # {})
    => /\ pc = "done"
       /\ sent = <<>>
       /\ reply.type = "error"
       /\ reply.message[1] = "Input validation failed:\n"
       /\ \A line \in ExpectedIssueLines :
            \E k \in DOMAIN reply.message : reply.message[k] = line
       /\ Cardinality({k \in DOMAIN reply.message : reply.message[k] = "\n"}) + 1
            = Cardinality(ExpectedIssueLines)

C13_Witness ==
    /\ call.name = "transition_jira_status"
    /\ DOMAIN call.args = {}
    /\ pc = "done"
    /\ sent = <<>>
    /\ reply.type = "error"
    /\ Len(reply.message) = 5

\* The URL lies under the base URL of the Jira REST API.
UnderApiBase(url) == StartsWith(JoinText(url), ApiBaseUrl \o "/")

\* C14: every HTTP request the server sends goes to a URL under
\* config.apiBaseUrl, whatever argument values the caller supplies.
C14_RequestsUnderApiBase ==
    \A i \in DOMAIN sent : UnderApiBase(sent[i].url)

-----------------------------------------------------------------------------
(* Properties of the project components *)

\* The places of the response that hold a component that is not archived.
NotArchived(items) == {i \in DOMAIN items : ~items[i].archived}

\* The place in the response of the k-th component that is not archived.
PlaceOf(items, k) ==
    CHOOSE i \in NotArchived(items) :
      Cardinality({j \in NotArchived(items) : j <= i}) = k

\* C15: getProjectComponents returns the components of the response that
\* are not archived and no other, in the order of the response, each with
\* its id, its name and as ownership the name of its lead or 'unassigned'
\* when it has no lead; count is the number of components returned.
C15_NonArchivedComponentsInOrder ==
    (call.name = "get_all_components_using_project" /\ pc = "done"
     /\ opResult.type = "return")
    => LET items == local.rawComponents.items
           result == opResult.value
       IN  /\ result.success
           /\ result.count = Len(result.components)
           /\ Len(result.components) = Cardinality(NotArchived(items))
           /\ \A k \in DOMAIN result.components :
                LET component == items[PlaceOf(items, k)]
                IN  /\ result.components[k].component_id = component.id
                    /\ result.components[k].component_name = component.name
                    /\ result.components[k].ownership =
                         (IF "lead" \in DOMAIN component
                          THEN component.lead.name ELSE "unassigned")

C15_Witness ==
    /\ call.name = "get_all_components_using_project"
    /\ pc = "done"
    /\ opResult.type = "return"
    /\ Len(local.rawComponents.items) = 3
    /\ local.rawComponents.items[1].archived
    /\ opResult.value.count = 2
    /\ opResult.value.components[1].ownership = "unassigned"
    /\ opResult.value.components[2].ownership = "alice"

-----------------------------------------------------------------------------
(* Properties of the issue type metadata *)

\* The value of a parameter in the query of a URL: <<>> when it has none.
QueryValue(url, key) ==
    LET parts == Split(url, "?", 1)
        pairs == IF Len(parts) = 1 THEN <<>> ELSE Split(parts[2], "&", 1)
        hits == SelectSeq(pairs, LAMBDA pair : StartsWith(pair, key \o "="))
    IN  IF Len(hits) = 0 THEN <<>>
        ELSE <<SubSeq(hits[1], Len(key) + 2, Len(hits[1]))>>

\* The number a text of decimal digits stands for.
RECURSIVE ParseInt(_)
ParseInt(text) ==
    IF Len(text) = 0 THEN 0
    ELSE 10 * ParseInt(SubSeq(text, 1, Len(text) - 1))
         + (CHOOSE d \in 0..9 : ToString(d) = SubSeq(text, Len(text), Len(text)))

\* C16: the page size get_jira_issuetype_metadata asks Jira for is never
\* above 200: the request carries maxResults with a value of at most 200,
\* or carries none, and none only when the caller's value is 50.
C16_PageSizeAtMost200 ==
    call.name = "get_jira_issuetype_metadata" =>
      \A i \in DOMAIN sent :
        LET pageSize == QueryValue(JoinText(sent[i].url), "maxResults")
        IN  IF Len(pageSize) = 0 THEN call.args.maxResults = 50
            ELSE ParseInt(pageSize[1]) <= 200

C16_Witness ==
    /\ call.name = "get_jira_issuetype_metadata"
    /\ call.args.maxResults = 500
    /\ Len(sent) = 1
    /\ QueryValue(JoinText(sent[1].url), "maxResults") = <<"200">>

\* Some object of the value, at any depth, has a key named self.
RECURSIVE HasSelfKey(_)
HasSelfKey(value) ==
    \E i \in DOMAIN value.entries :
       \/ value.kind = "object" /\ value.entries[i].key = "self"
       \/ HasSelfKey(value.entries[i].value)

\* The value with the "self" keys taken out read as a text: a key of an
\* object is written when it is not self, an item of an array always.
RECURSIVE TextWithoutSelf(_)
RECURSIVE EntriesWithoutSelf(_, _)
TextWithoutSelf(value) ==
    value.kind \o ":" \o value.text \o "{" \o EntriesWithoutSelf(value, 1) \o "}"

EntriesWithoutSelf(value, i) ==
    IF i > Len(value.entries) THEN ""
    ELSE (IF value.kind = "object" /\ value.entries[i].key = "self" THEN ""
          ELSE value.entries[i].key \o "=" \o TextWithoutSelf(value.entries[i].value) \o ";")
         \o EntriesWithoutSelf(value, i + 1)

\* The field is required and has no default value.
RequiredWithoutDefault(field) ==
    /\ Property(field, "required") = <<Bool(TRUE)>>
    /\ Property(field, "hasDefaultValue") = <<Bool(FALSE)>>

\* The places of the fields of the response that the minimized data keeps.
KeptPlaces(fields) == {i \in DOMAIN fields : RequiredWithoutDefault(fields[i])}

\* The response of Jira is an object whose values is a list.
HasValuesList(response) ==
    /\ Len(Property(response, "values")) = 1
    /\ Property(response, "values")[1].kind = "array"

\* C18: with minimizeOutput the data has no self key at any depth and, when
\* the response has a list under values, the list of the data holds the
\* fields of the response that are required and have no default value, each
\* without its self keys, in the order of the response, and no other field;
\* without minimizeOutput the data is the response.
C18_MinimizedOutput ==
    (call.name = "get_jira_issuetype_metadata" /\ pc = "done"
     /\ opResult.type = "return" /\ opResult.value.success)
    => LET response == local.response
           data == opResult.value.data
       IN  IF ~call.args.minimizeOutput THEN data = response
           ELSE /\ ~HasSelfKey(data)
                /\ HasValuesList(response) =>
                     LET fields == ItemsOf(Property(response, "values")[1])
                         kept == ItemsOf(Property(data, "values")[1])
                     IN  /\ Len(kept) = Cardinality(KeptPlaces(fields))
                         /\ \A k \in DOMAIN kept :
                              \E i \in KeptPlaces(fields) :
                                 /\ Cardinality({j \in KeptPlaces(fields) : j <= i}) = k
                                 /\ TextWithoutSelf(kept[k]) = TextWithoutSelf(fields[i])

C18_Witness ==
    /\ call.name = "get_jira_issuetype_metadata"
    /\ pc = "done"
    /\ opResult.type = "return"
    /\ opResult.value.success
    /\ call.args.minimizeOutput
    /\ HasSelfKey(local.response)
    /\ HasValuesList(local.response)
    /\ Len(ItemsOf(Property(local.response, "values")[1])) = 2
    /\ Len(ItemsOf(Property(opResult.value.data, "values")[1])) = 1

C18_WitnessUnchanged ==
    /\ call.name = "get_jira_issuetype_metadata"
    /\ pc = "done"
    /\ opResult.type = "return"
    /\ opResult.value.success
    /\ ~call.args.minimizeOutput
    /\ HasSelfKey(opResult.value.data)

-----------------------------------------------------------------------------
(* Properties of the issue types *)

\* C17: the request get_jira_issuetype sends to the createmeta issuetypes
\* endpoint carries the startAt and the maxResults of the call, and a
\* successful result reports a startAt, a maxResults and a total.
C17_PaginationSent ==
    call.name = "get_jira_issuetype" =>
      /\ \A i \in DOMAIN sent :
           /\ QueryValue(JoinText(sent[i].url), "startAt")
                = <<ToString(call.args.startAt)>>
           /\ QueryValue(JoinText(sent[i].url), "maxResults")
                = <<ToString(call.args.maxResults)>>
      /\ (pc = "done" /\ opResult.type = "return" /\ opResult.value.success)
           => {"startAt", "maxResults", "total"} \subseteq DOMAIN opResult.value

-----------------------------------------------------------------------------
(* Properties of updateJiraIssue *)

IsFieldsPut(request) ==
    /\ request.method = "PUT"
    /\ request.path = <<"issue/", call.args.issueIdOrKey>>

\* update_jira_issue was called with fields.status.
UpdateWithStatus == call.name = "update_jira_issue" /\ HasStatusField

\* The call has ended and every request it sent was answered without a
\* failure.
EndedWithoutFailure ==
    /\ pc = "done"
    /\ \A i \in DOMAIN sent : sent[i].outcome = "ok"

\* The body of the PUT has no status among its fields, and has the other
\* fields of the call.
PutBodyWithoutStatus ==
    \A i \in DOMAIN sent :
       IsFieldsPut(sent[i]) =>
         /\ "status" \notin DOMAIN sent[i].body.fields
         /\ DOMAIN UpdateFieldsArg \ {"status"} \subseteq DOMAIN sent[i].body.fields

StepOf(request) ==
    IF request.method = "GET"
       /\ request.path = <<"issue/", call.args.issueIdOrKey, "?fields=labels">>
    THEN 1
    ELSE IF IsFieldsPut(request) THEN 2
    ELSE IF IsLinkPost(request) THEN 3
    ELSE IF IsTransitionRequest(request) \/ IsCommentPost(request) THEN 4
    ELSE 0

\* A step has failed: a request other than the comment that follows a
\* performed transition has failed.
StepFailed(i) == sent[i].outcome = "failed" /\ ~IsCommentPost(sent[i])

\* C20: the requests of updateJiraIssue come in the order GET of the
\* labels, PUT of the fields, POSTs of the links, status transition, each
\* of the first two once at most; once a step has failed no request of a
\* later step is sent and no request at all is sent any more, so nothing
\* done before is undone, every request sent before stays as it was sent,
\* and the operation has ended with success=false.
C20_StepsInOrderAndFailureStops ==
    /\ [](call.name = "update_jira_issue" =>
            /\ \A i \in DOMAIN sent : StepOf(sent[i]) \in 1..4
            /\ Len(sent) > 0 => StepOf(sent[1]) = 1
            /\ \A i, j \in DOMAIN sent :
                 i < j => /\ StepOf(sent[i]) <= StepOf(sent[j])
                          /\ StepOf(sent[j]) \in {1, 2} => StepOf(sent[i]) < StepOf(sent[j])
            /\ \A i \in DOMAIN sent :
                 StepFailed(i) =>
                   /\ \A j \in DOMAIN sent : StepOf(sent[j]) <= StepOf(sent[i])
                   /\ pc = "done"
                   /\ opResult.type = "return"
                   /\ opResult.value.success = FALSE)
    /\ [][(call.name = "update_jira_issue" /\ call' = call) =>
            /\ Len(sent') >= Len(sent)
            /\ \A i \in DOMAIN sent :
                 /\ sent'[i].method = sent[i].method
                 /\ sent'[i].url = sent[i].url
                 /\ sent'[i].body = sent[i].body
                 /\ sent[i].outcome # "pending" => sent'[i] = sent[i]
            /\ (\E i \in DOMAIN sent : StepFailed(i)) => Len(sent') = Len(sent)]_vars

C20_Witness ==
    /\ call.name = "update_jira_issue"
    /\ HasStatusField
    /\ pc = "done"
    /\ Len(sent) = 4
    /\ StepOf(sent[2]) = 2 /\ sent[2].outcome = "ok"
    /\ StepOf(sent[3]) = 3 /\ sent[3].outcome = "failed"
    /\ StepOf(sent[4]) = 3 /\ sent[4].outcome = "ok"
    /\ opResult.value.success = FALSE

\* C21: updateJiraIssue sends the PUT of the fields only when the call has
\* a field other than status or has update operations; a call with only a
\* status or only linkedIssues sends no PUT.
C21_PutOnlyWhenFieldsGiven ==
    call.name = "update_jira_issue" =>
      \A i \in DOMAIN sent :
         IsFieldsPut(sent[i]) =>
           \/ DOMAIN UpdateFieldsArg \ {"status"} # {}
           \/ DOMAIN UpdateArg # {}

-----------------------------------------------------------------------------
(* Properties of calls in progress together *)

\* C22: when the updateJiraIssue calls on the issue, each adding its own
\* label, have all ended with success, the issue has the label of every
\* call and every label a call read from it: no label is lost, whatever
\* the order of the GET and PUT requests of the calls.
C22_NoLabelLost ==
    (calls # <<>> /\ \A c \in 1..NumCalls : calls[c].result = "success")
    => \A c \in 1..NumCalls :
         /\ Range(calls[c].newLabels) \subseteq Range(issueLabels)
         /\ Range(calls[c].existingLabels) \subseteq Range(issueLabels)

=============================================================================
